---- MODULE Spec2Model ----
(***************************************************************************)
(* A model of the rt ray tracer (borisfaure/rt): the colour conversions    *)
(* and the linear solver of maths.rs, the primitives of object.rs and the  *)
(* resumable parallel render loop of raytracer.rs.                         *)
(*                                                                         *)
(* f64 values are modelled as exact rationals <<n, d>> in lowest terms     *)
(* with d > 0; <<1, 0>> is +infinity.                                      *)
(***************************************************************************)
EXTENDS Integers, Sequences, FiniteSets, TLC

VARIABLES
    \* ---- render_scene (raytracer.rs) ----
    disk,           \* the file at pngpath
    buf,            \* the RgbaImage being rendered
    pc,             \* position of the main thread in render_scene
    stop,           \* the AtomicBool set by SIGINT / SIGTERM
    nb_pix,         \* AtomicUsize: pixels completed or skipped
    nb_pix_worked,  \* AtomicUsize: pixels freshly computed
    todo,           \* pixels of the parallel iterator not yet handed to a worker
    wk,             \* per worker: its position in the closure and its locals
    seeded,         \* TRUE when the random generator is deterministic
    \* ---- history of the current run ----
    loaded,         \* the buffer as it was when the parallel loop started
    origin,         \* the buffer the chain of resumed runs started from
    chained,        \* TRUE when the file holds a buffer of that chain
    computed,       \* pixels written by a worker in this run
    late,           \* per worker: pixels it wrote after stop was set
    saved,          \* what the last buf.save() did: "none", "ok", "failed"
    \* ---- pure functions, applied to drawn inputs ----
    cv,             \* colour conversion: input and results
    sv,             \* solve_3variable_system: inputs and result
    hv,             \* Object::hits: object, ray, interval and result
    \* ---- generate_forest_monte_carlo (scene.rs) ----
    fv              \* its arguments and its locals

vars == <<disk, buf, pc, stop, nb_pix, nb_pix_worked, todo, wk, seeded,
          loaded, origin, chained, computed, late, saved, cv, sv, hv, fv>>

renderVars == <<disk, buf, pc, stop, nb_pix, nb_pix_worked, todo, wk, seeded,
                loaded, origin, chained, computed, late, saved>>

-----------------------------------------------------------------------------
(* Bounds of the model *)

ScreenW == 2
NWorkers == 2
NSamples == 2
NJitter == 2

-----------------------------------------------------------------------------
(* f64 as exact rationals *)

Abs(x) == IF x < 0 THEN -x ELSE x

\* Functions rather than operators where an argument is used more than once:
\* a function is applied to values.
gcd[a \in Nat, b \in Nat] == IF b = 0 THEN a ELSE gcd[b, a % b]

\* <<1, 0>> is +infinity, <<-1, 0>> is -infinity, <<0, 0>> is NaN.
qnorm[n \in Int, d \in Int] ==
    LET g == gcd[Abs(n), Abs(d)]
        s == IF d < 0 THEN -1 ELSE 1
    IN  IF g = 0 THEN <<0, 0>> ELSE <<(s * n) \div g, (s * d) \div g>>
Q(n, d) == qnorm[n, d]

Rat == Int \X Int
Inf == <<1, 0>>
NaN == <<0, 0>>
IsNaN(x) == x[1] = 0 /\ x[2] = 0

qadd[x \in Rat, y \in Rat] ==
    IF x[2] = 0 /\ y[2] = 0
    THEN (IF x = y THEN x ELSE NaN)
    ELSE LET g == gcd[x[2], y[2]]
         IN  qnorm[x[1] * (y[2] \div g) + y[1] * (x[2] \div g), (x[2] \div g) * y[2]]
qsub[x \in Rat, y \in Rat] == qadd[x, <<-y[1], y[2]>>]
qmul[x \in Rat, y \in Rat] == qnorm[x[1] * y[1], x[2] * y[2]]
qinv[y \in Rat] == IF y[1] < 0 THEN <<-y[2], -y[1]>> ELSE <<y[2], y[1]>>
qdiv[x \in Rat, y \in Rat] == qmul[x, qinv[y]]
\* comparisons with NaN are false
qlt[x \in Rat, y \in Rat] ==
    IF IsNaN(x) \/ IsNaN(y) THEN FALSE
    ELSE IF x[2] = 0 /\ y[2] = 0 THEN x[1] < y[1]
    ELSE LET g == gcd[x[2], y[2]]
         IN  x[1] * (y[2] \div g) < y[1] * (x[2] \div g)
qle[x \in Rat, y \in Rat] ==
    IF IsNaN(x) \/ IsNaN(y) THEN FALSE
    ELSE IF x[2] = 0 /\ y[2] = 0 THEN x[1] <= y[1]
    ELSE LET g == gcd[x[2], y[2]]
         IN  x[1] * (y[2] \div g) <= y[1] * (x[2] \div g)

QInt(n) == <<n, 1>>
QAdd(x, y) == qadd[x, y]
QSub(x, y) == qsub[x, y]
QMul(x, y) == qmul[x, y]
QDiv(x, y) == qdiv[x, y]
QLt(x, y) == qlt[x, y]
QLe(x, y) == qle[x, y]
QNeg(x) == <<-x[1], x[2]>>
QAbs(x) == <<Abs(x[1]), x[2]>>
QFloor(x) == x[1] \div x[2]

\* f64::sqrt, exact on the squares of rationals (the only values it is
\* applied to here); the integer root otherwise.
isqrt[n \in Nat] == CHOOSE r \in 0 .. n : r * r <= n /\ (r + 1) * (r + 1) > n
qsqrt[x \in Rat] == IF x[2] = 0 THEN x ELSE Q(isqrt[x[1]], isqrt[x[2]])
QSqrt(x) == qsqrt[x]

Zero == QInt(0)
One == QInt(1)

-----------------------------------------------------------------------------
(* Vec3 (maths.rs) *)

\* pub const EPSILON: f64 = 0.000001;
EPSILON == Q(1, 1000000)

\* Vec3 { x, y, z }
Vec3(x, y, z) == [x |-> x, y |-> y, z |-> z]

\* Option<T>
None == <<>>
Some(x) == <<x>>
IsSome(o) == Len(o) = 1
Unwrap(o) == o[1]

\* The values of the structures, as the domains of the functions below: a
\* function is applied to values, an operator to expressions.
Vec3Set == [x : Rat, y : Rat, z : Rat]

\* Vec3::new_clean
cleanup(v) == IF QLe(QNeg(EPSILON), v) /\ QLe(v, EPSILON) THEN Zero ELSE v
f_new_clean[v \in Vec3Set] == Vec3(cleanup(v.x), cleanup(v.y), cleanup(v.z))
new_clean(v) == f_new_clean[v]

\* Vec3::cross_product
f_cross_product[u \in Vec3Set, v \in Vec3Set] ==
    Vec3(QSub(QMul(u.y, v.z), QMul(u.z, v.y)),
         QSub(QMul(u.z, v.x), QMul(u.x, v.z)),
         QSub(QMul(u.x, v.y), QMul(u.y, v.x)))
cross_product(u, v) == f_cross_product[u, v]

\* Vec3::dot_product
f_dot_product[u \in Vec3Set, v \in Vec3Set] ==
    QAdd(QAdd(QMul(u.x, v.x), QMul(u.y, v.y)), QMul(u.z, v.z))
dot_product(u, v) == f_dot_product[u, v]

\* Vec3::length_sq
length_sq(u) == dot_product(u, u)

\* Vec3::div
f_div[u \in Vec3Set, d \in Rat] == Vec3(QDiv(u.x, d), QDiv(u.y, d), QDiv(u.z, d))
div(u, d) == f_div[u, d]

\* Vec3::normalize
normalize(u) == div(u, QSqrt(length_sq(u)))

\* Vec3::to
f_to[u \in Vec3Set, dest \in Vec3Set] ==
    Vec3(QSub(dest.x, u.x), QSub(dest.y, u.y), QSub(dest.z, u.z))
to(u, dest) == f_to[u, dest]

\* Vec3::at
f_at[u \in Vec3Set, from \in Vec3Set, t \in Rat] ==
    Vec3(QAdd(from.x, QMul(t, u.x)), QAdd(from.y, QMul(t, u.y)),
         QAdd(from.z, QMul(t, u.z)))
at(u, from, t) == f_at[u, from, t]

\* Vec3::addv
f_addv[u \in Vec3Set, b \in Vec3Set] ==
    Vec3(QAdd(u.x, b.x), QAdd(u.y, b.y), QAdd(u.z, b.z))
addv(u, b) == f_addv[u, b]

\* Vec3::multv
f_multv[u \in Vec3Set, b \in Vec3Set] ==
    Vec3(QMul(u.x, b.x), QMul(u.y, b.y), QMul(u.z, b.z))
multv(u, b) == f_multv[u, b]

\* Vec3::opposite, as Ellipsoid::new uses it for the translation to the centre
opposite(u) == Vec3(QNeg(u.x), QNeg(u.y), QNeg(u.z))

\* The vector of the inverses, as Ellipsoid::new uses it for inv_radii
inverted(u) == Vec3(QDiv(One, u.x), QDiv(One, u.y), QDiv(One, u.z))

-----------------------------------------------------------------------------
(* Colour conversions (maths.rs) *)

Levels == 256

\* the closure `convert` of impl Into<Rgb<u8>> for Vec3
convert_noclamp(v) == QFloor(QMul(v, QInt(Levels))) % Levels
convert_ceil(v) ==
    IF QLe(v, Zero) THEN 0
    ELSE IF QLe(One, v) THEN 255
    ELSE -QFloor(QMul(QSub(Zero, v), QInt(Levels)))
convert(v) ==
    IF QLe(v, Zero) THEN 0
    ELSE IF QLe(One, v) THEN 255
    ELSE QFloor(QMul(v, QInt(Levels)))

\* impl Into<Rgb<u8>> for Vec3
VecIntoRgb(v) == <<convert(v.x), convert(v.y), convert(v.z)>>

\* impl Into<Vec3> for Rgb<u8>
RgbIntoVec(c) ==
    Vec3(Q(c[1], Levels), Q(c[2], Levels), Q(c[3], Levels))

\* The conversion used by `**pixel = Vec3::new(r, g, b).into()`: the three
\* channels as for Rgb<u8>, and an opaque alpha marking the pixel as written.
VecIntoRgba(v) == <<convert(v.x), convert(v.y), convert(v.z), 255>>

-----------------------------------------------------------------------------
(* solve_3variable_system (maths.rs) *)

\* struct Row4 { a, b, c, d }
Row4(a, b, c, d) == [a |-> a, b |-> b, c |-> c, d |-> d]
Row4Set == [a : Rat, b : Rat, c : Rat, d : Rat]

\* The locals of solve_3variable_system: the rows, shuffle, and whether it
\* has returned None.
SolverStates ==
    [r1 : Row4Set, r2 : Row4Set, r3 : Row4Set,
     shuffle : (1 .. 3) \X (1 .. 3) \X (1 .. 3), none : BOOLEAN]

\* Lines 222-226: the three equations, one per coordinate, and shuffle.
SolverRows(a, b, c, p) ==
    [r1 |-> Row4(a.x, b.x, c.x, p.x),
     r2 |-> Row4(a.y, b.y, c.y, p.y),
     r3 |-> Row4(a.z, b.z, c.z, p.z),
     shuffle |-> <<1, 2, 3>>,
     none |-> FALSE]

\* Lines 227-239: a non-zero first pivot is looked for in rows 2 and 3.
f_SwapFirstPivot[s \in SolverStates] ==
    IF s.r1.a = Zero
    THEN IF s.r2.a # Zero
         THEN [s EXCEPT !.r1 = s.r2, !.r2 = s.r1,
                        !.shuffle = <<s.shuffle[2], s.shuffle[1], s.shuffle[3]>>]
         ELSE IF s.r3.a # Zero
         THEN [s EXCEPT !.r1 = s.r3, !.r3 = s.r1,
                        !.shuffle = <<s.shuffle[3], s.shuffle[2], s.shuffle[1]>>]
         ELSE [s EXCEPT !.none = TRUE]
    ELSE s
SwapFirstPivot(s) == f_SwapFirstPivot[s]

\* Lines 240-248: a non-zero second pivot is looked for in row 3.
f_SwapSecondPivot[s \in SolverStates] ==
    IF s.none THEN s
    ELSE IF s.r2.b = Zero
    THEN IF s.r3.b # Zero
         THEN [s EXCEPT !.r2 = s.r3, !.r3 = s.r2,
                        !.shuffle = <<s.shuffle[1], s.shuffle[3], s.shuffle[2]>>]
         ELSE [s EXCEPT !.none = TRUE]
    ELSE s
SwapSecondPivot(s) == f_SwapSecondPivot[s]

\* Lines 249-251: if r3.c == 0. { return None; }
f_CheckThirdPivot[s \in SolverStates] ==
    IF ~s.none /\ s.r3.c = Zero THEN [s EXCEPT !.none = TRUE] ELSE s
CheckThirdPivot(s) == f_CheckThirdPivot[s]

\* r := f * r - g * q, on the four fields
f_RowCombine[f \in Rat, r \in Row4Set, g \in Rat, q \in Row4Set] ==
    Row4(QSub(QMul(f, r.a), QMul(g, q.a)), QSub(QMul(f, r.b), QMul(g, q.b)),
         QSub(QMul(f, r.c), QMul(g, q.c)), QSub(QMul(f, r.d), QMul(g, q.d)))
RowCombine(f, r, g, q) == f_RowCombine[f, r, g, q]

\* Lines 253-262: 1st step, put a 0 in r3.a using r1 and r3 rows
f_Eliminate1[s \in SolverStates] ==
    IF s.r3.a # Zero
    THEN [s EXCEPT !.r3 = RowCombine(s.r1.a, s.r3, s.r3.a, s.r1)]
    ELSE s
Eliminate1(s) == f_Eliminate1[s]

\* Lines 264-273: 2nd step, put a 0 in r2.a using r1 and r2 rows
f_Eliminate2[s \in SolverStates] ==
    IF s.r2.a # Zero
    THEN [s EXCEPT !.r2 = RowCombine(s.r1.a, s.r2, s.r2.a, s.r1)]
    ELSE s
Eliminate2(s) == f_Eliminate2[s]

\* Lines 275-284: 3rd step, put a 0 in r3.b using r2 and r3 rows
f_Eliminate3[s \in SolverStates] ==
    IF s.r2.b # Zero
    THEN [s EXCEPT !.r3 = RowCombine(s.r2.b, s.r3, s.r3.b, s.r2)]
    ELSE s
Eliminate3(s) == f_Eliminate3[s]

\* Lines 290-294: compute the solution
f_BackSubstitute[s \in SolverStates] ==
    LET z == QDiv(s.r3.d, s.r3.c)
        y == QDiv(QSub(s.r2.d, QMul(z, s.r2.c)), s.r2.b)
        x == QDiv(QSub(QSub(s.r1.d, QMul(z, s.r1.c)), QMul(y, s.r1.b)), s.r1.a)
    IN  Vec3(x, y, z)
BackSubstitute(s) == f_BackSubstitute[s]

\* A shuffle back that never swaps y and z.
ShuffleBackFirstOnly(r, shuffle) ==
    IF shuffle[1] # 1
    THEN IF shuffle[2] = 1
         THEN [r |-> Vec3(r.y, r.x, r.z),
               shuffle |-> <<shuffle[2], shuffle[1], shuffle[3]>>]
         ELSE [r |-> Vec3(r.z, r.y, r.x),
               shuffle |-> <<shuffle[3], shuffle[2], shuffle[1]>>]
    ELSE [r |-> r, shuffle |-> shuffle]

\* Lines 296-309: "Shuffle back": the components of the solution are swapped
\* as the rows were.
f_ShuffleBack[r \in Vec3Set, shuffle \in (1 .. 3) \X (1 .. 3) \X (1 .. 3)] ==
    LET s1 == IF shuffle[1] # 1
              THEN IF shuffle[2] = 1
                   THEN [r |-> Vec3(r.y, r.x, r.z),
                         shuffle |-> <<shuffle[2], shuffle[1], shuffle[3]>>]
                   ELSE [r |-> Vec3(r.z, r.y, r.x),
                         shuffle |-> <<shuffle[3], shuffle[2], shuffle[1]>>]
              ELSE [r |-> r, shuffle |-> shuffle]
    IN  IF s1.shuffle[2] # 2
        THEN [r |-> Vec3(s1.r.x, s1.r.z, s1.r.y),
              shuffle |-> <<s1.shuffle[1], s1.shuffle[3], s1.shuffle[2]>>]
        ELSE s1
ShuffleBack(r, shuffle) == f_ShuffleBack[r, shuffle]

\* Lines 253-312, once the pivots are found: the elimination with its
\* assert!, the second test of the pivots, the solution and the shuffle back.
f_SolveRows[s \in SolverStates] ==
    LET e1 == Eliminate1(s)
        e2 == Eliminate2(e1)
        e3 == Eliminate3(e2)
        asserts == /\ (s.r3.a # Zero => e1.r3.a = Zero)
                   /\ (e1.r2.a # Zero => e2.r2.a = Zero)
                   /\ (e2.r2.b # Zero => e3.r3.a = Zero)
    IN  IF ~asserts THEN [panic |-> TRUE, res |-> None]
        ELSE IF e3.r3.c = Zero \/ e3.r2.b = Zero \/ e3.r1.a = Zero
        THEN [panic |-> FALSE, res |-> None]
        ELSE LET back == ShuffleBack(BackSubstitute(e3), e3.shuffle)
             IN  IF back.shuffle # <<1, 2, 3>>
                 THEN [panic |-> TRUE, res |-> None]
                 ELSE [panic |-> FALSE, res |-> Some(back.r)]
SolveRows(s) == f_SolveRows[s]

\* solve_3variable_system: the Option<Vec3> it returns, and whether one of
\* its assert! fails.
f_solve_3variable_system[a \in Vec3Set, b \in Vec3Set, c \in Vec3Set, p \in Vec3Set] ==
    LET s == CheckThirdPivot(SwapSecondPivot(SwapFirstPivot(SolverRows(a, b, c, p))))
    IN  IF s.none THEN [panic |-> FALSE, res |-> None] ELSE SolveRows(s)
solve_3variable_system(a, b, c, p) == f_solve_3variable_system[a, b, c, p]

-----------------------------------------------------------------------------
(* Ray, Hit (raytracer.rs) and the objects (object.rs) *)

\* struct Ray { origin, direction }
Ray(origin_, direction) == [origin |-> origin_, direction |-> direction]
RaySet == [origin : Vec3Set, direction : Vec3Set]

\* Ray::at
RayAt(ray, t) == at(ray.direction, ray.origin, t)

\* struct Hit { color, normal, p, t }
Hit(color, normal, p, t) == [color |-> color, normal |-> normal, p |-> p, t |-> t]

\* The value of the expression whose values are S: S has one element.
Only(S) == CHOOSE x \in S : TRUE

\* struct Plan
PlanSet == [kind : {"plan"}, p : Vec3Set, normal : Vec3Set, color : Vec3Set]

\* Plan::new
PlanNew(p, normal, color) ==
    [kind |-> "plan", p |-> p, normal |-> normal, color |-> RgbIntoVec(color)]

\* impl Object for Plan
f_PlanHits[self \in PlanSet, ray \in RaySet, tmin \in Rat, tmax \in Rat] ==
    LET dn == dot_product(ray.direction, self.normal)
    IN  IF QLe(EPSILON, dn) THEN None
        ELSE LET to_plan == to(ray.origin, self.p)
                 t == QDiv(dot_product(to_plan, self.normal), dn)
             IN  IF QLe(t, tmin) \/ QLe(tmax, t) THEN None
                 ELSE Some(Hit(self.color, self.normal, RayAt(ray, t), t))
PlanHits(self, ray, tmin, tmax) == f_PlanHits[self, ray, tmin, tmax]

\* struct Sphere
SphereSet ==
    [kind : {"sphere"}, center : Vec3Set, radius : Rat, rd_sq : Rat, color : Vec3Set]

\* Sphere::new
SphereNew(center, radius, color) ==
    [kind |-> "sphere", center |-> center, radius |-> radius,
     rd_sq |-> QMul(radius, radius), color |-> RgbIntoVec(color)]

\* The hit of Sphere::hits at the root t
f_SphereHitAt[self \in SphereSet, ray \in RaySet, t \in Rat] ==
    LET p == RayAt(ray, t)
    IN  Hit(self.color, div(to(self.center, p), self.radius), p, t)
\* The hit with the normal from the point to the centre
SphereHitAtInward(self, ray, t) ==
    Hit(self.color, div(to(RayAt(ray, t), self.center), self.radius), RayAt(ray, t), t)
SphereHitAt(self, ray, t) == f_SphereHitAt[self, ray, t]

\* impl Object for Sphere
f_SphereHits[self \in SphereSet, ray \in RaySet, tmin \in Rat, tmax \in Rat] ==
    LET oc == to(self.center, ray.origin)
        a == dot_product(ray.direction, ray.direction)
        b == dot_product(oc, ray.direction)
        c == QSub(dot_product(oc, oc), self.rd_sq)
        discrimant == QSub(QMul(b, b), QMul(a, c))
    IN  IF QLe(discrimant, Zero) THEN None
        ELSE LET discrimant_sqrt == QSqrt(discrimant)
                 t1 == QDiv(QSub(QNeg(b), discrimant_sqrt), a)
                 t2 == QDiv(QAdd(QNeg(b), discrimant_sqrt), a)
             IN  IF QLt(tmin, t1) /\ QLt(t1, tmax) THEN Some(SphereHitAt(self, ray, t1))
                 ELSE IF QLt(tmin, t2) /\ QLt(t2, tmax) THEN Some(SphereHitAt(self, ray, t2))
                 ELSE None
SphereHits(self, ray, tmin, tmax) == f_SphereHits[self, ray, tmin, tmax]

\* struct Ellipsoid
EllipsoidSet ==
    [kind : {"ellipsoid"}, center : Vec3Set, translation : Vec3Set,
     radii : Vec3Set, inv_radii : Vec3Set, sphere : SphereSet]

\* Ellipsoid::new
EllipsoidNew(center, radii, color) ==
    [kind |-> "ellipsoid", center |-> center, translation |-> opposite(center),
     radii |-> radii, inv_radii |-> inverted(radii),
     sphere |-> SphereNew(Vec3(Zero, Zero, Zero), One, color)]

\* impl Object for Ellipsoid
f_EllipsoidHits[self \in EllipsoidSet, ray \in RaySet, tmin \in Rat, tmax \in Rat] ==
    LET ray2 == Ray(multv(addv(ray.origin, self.translation), self.inv_radii),
                    multv(ray.direction, self.inv_radii))
    IN  Only({ IF IsSome(h)
               THEN Some(Hit(Unwrap(h).color, Unwrap(h).normal,
                             addv(multv(Unwrap(h).p, self.radii), self.center),
                             Unwrap(h).t))
               ELSE None :
               h \in {SphereHits(self.sphere, ray2, tmin, tmax)} })
EllipsoidHits(self, ray, tmin, tmax) == f_EllipsoidHits[self, ray, tmin, tmax]

\* struct Triangle
TriangleSet ==
    [kind : {"triangle"}, a : Vec3Set, b : Vec3Set, c : Vec3Set,
     normal : Vec3Set, color : Vec3Set]

\* Triangle::new_ref
TriangleNew(a_, b_, c_, color) ==
    LET a == new_clean(a_)
        b == new_clean(b_)
        c == new_clean(c_)
    IN  [kind |-> "triangle", a |-> a, b |-> b, c |-> c,
         normal |-> normalize(cross_product(to(b, a), to(b, c))),
         color |-> RgbIntoVec(color)]

\* Triangle::hits once the plane of the triangle is met at t, inside the
\* interval: the weights of the point on the three corners decide.
f_TriangleHitAt[self \in TriangleSet, ray \in RaySet, t \in Rat] ==
    Only({ Only({ IF IsSome(o)
                  THEN IF \/ QLt(Unwrap(o).x, Zero)
                          \/ QLt(Unwrap(o).y, Zero)
                          \/ QLt(Unwrap(o).z, Zero)
                       THEN None
                       ELSE Some(Hit(self.color, self.normal, p, t))
                  ELSE None :
                  o \in {solve_3variable_system(self.a, self.b, self.c, p).res} }) :
           p \in {RayAt(ray, t)} })
TriangleHitAt(self, ray, t) == f_TriangleHitAt[self, ray, t]

\* impl Object for Triangle
f_TriangleHits[self \in TriangleSet, ray \in RaySet, tmin \in Rat, tmax \in Rat] ==
    LET dn == dot_product(ray.direction, self.normal)
    IN  IF QLe(Zero, dn) THEN None
        ELSE LET to_plan == to(ray.origin, self.a)
                 t == QDiv(dot_product(to_plan, self.normal), dn)
             IN  IF QLe(t, tmin) \/ QLe(tmax, t) THEN None
                 ELSE TriangleHitAt(self, ray, t)
TriangleHits(self, ray, tmin, tmax) == f_TriangleHits[self, ray, tmin, tmax]

\* Tetrahedron::new, from the corners it computes: A, B, C on the base and top
TetrahedronNew(A, B, C, top, color) ==
    [kind |-> "tetrahedron",
     base |-> TriangleNew(A, C, B, color),
     side1 |-> TriangleNew(A, B, top, color),
     side2 |-> TriangleNew(B, C, top, color),
     side3 |-> TriangleNew(C, A, top, color),
     color |-> RgbIntoVec(color)]

\* The test of the loops on a hit h of a part: it is nearer than the nearest
\* one so far, and in the interval asked for, bounds included.
Nearer(h, tmin, tmax, t_min) ==
    /\ IsSome(h)
    /\ QLt(Unwrap(h).t, t_min)
    /\ QLe(tmin, Unwrap(h).t)
    /\ QLe(Unwrap(h).t, tmax)

\* The loop of Tetrahedron::hits from face number i on, with t_min and hit_min
RECURSIVE TetrahedronLoop(_, _, _, _, _, _, _)
TetrahedronLoop(faces, i, ray, tmin, tmax, t_min, hit_min) ==
    IF i > Len(faces) THEN hit_min
    ELSE Only({ IF Nearer(h, tmin, tmax, t_min)
                THEN TetrahedronLoop(faces, i + 1, ray, tmin, tmax, Unwrap(h).t, h)
                ELSE TetrahedronLoop(faces, i + 1, ray, tmin, tmax, t_min, hit_min) :
                h \in {TriangleHits(faces[i], ray, Zero, t_min)} })

\* impl Object for Tetrahedron
TetrahedronHits(self, ray, tmin, tmax) ==
    TetrahedronLoop(<<self.base, self.side1, self.side2, self.side3>>, 1,
                    ray, tmin, tmax, Inf, None)

\* o.hits() for the objects an Owl or a Signature is made of
PartHits(o, ray, tmin, tmax) ==
    CASE o.kind = "plan" -> PlanHits(o, ray, tmin, tmax)
      [] o.kind = "sphere" -> SphereHits(o, ray, tmin, tmax)
      [] o.kind = "ellipsoid" -> EllipsoidHits(o, ray, tmin, tmax)
      [] o.kind = "triangle" -> TriangleHits(o, ray, tmin, tmax)
      [] o.kind = "tetrahedron" -> TetrahedronHits(o, ray, tmin, tmax)

\* The loop of Conifer::hits, Owl::hits and Signature::hits from part i on
RECURSIVE PartsLoop(_, _, _, _, _, _, _)
PartsLoop(objects, i, ray, tmin, tmax, t_min, hit_min) ==
    IF i > Len(objects) THEN hit_min
    ELSE Only({ IF Nearer(h, tmin, tmax, t_min)
                THEN PartsLoop(objects, i + 1, ray, tmin, tmax, Unwrap(h).t, h)
                ELSE PartsLoop(objects, i + 1, ray, tmin, tmax, t_min, hit_min) :
                h \in {PartHits(objects[i], ray, Zero, t_min)} })

\* impl Object for Conifer
ConiferHits(self, ray, tmin, tmax) ==
    IF IsSome(SphereHits(self.bounding_sphere, ray, Zero, Inf))
    THEN PartsLoop(self.tetrahedrons, 1, ray, tmin, tmax, Inf, None)
    ELSE None

\* impl Object for Owl
OwlHits(self, ray, tmin, tmax) ==
    IF IsSome(SphereHits(self.bounding_sphere, ray, Zero, Inf))
    THEN PartsLoop(self.objects, 1, ray, tmin, tmax, Inf, None)
    ELSE None

\* impl Object for Signature
SignatureHits(self, ray, tmin, tmax) ==
    IF IsSome(SphereHits(self.bounding_sphere, ray, Zero, Inf))
    THEN PartsLoop(self.objects, 1, ray, tmin, tmax, Inf, None)
    ELSE None

\* struct Tetrahedron, and the objects that are parts of others
TetrahedronSet ==
    [kind : {"tetrahedron"}, base : TriangleSet, side1 : TriangleSet,
     side2 : TriangleSet, side3 : TriangleSet, color : Vec3Set]
PartSet == PlanSet \cup SphereSet \cup EllipsoidSet \cup TriangleSet \cup TetrahedronSet

\* The objects a scene holds (BaseObject)
BaseObjectSet ==
    PartSet
    \cup [kind : {"conifer"}, tetrahedrons : Seq(TetrahedronSet), bounding_sphere : SphereSet]
    \cup [kind : {"owl", "signature"}, objects : Seq(PartSet), bounding_sphere : SphereSet]

\* Object::hits, dispatched on the kind of the object
f_ObjectHits[o \in BaseObjectSet, ray \in RaySet, tmin \in Rat, tmax \in Rat] ==
    CASE o.kind = "conifer" -> ConiferHits(o, ray, tmin, tmax)
      [] o.kind = "owl" -> OwlHits(o, ray, tmin, tmax)
      [] o.kind = "signature" -> SignatureHits(o, ray, tmin, tmax)
      [] OTHER -> PartHits(o, ray, tmin, tmax)
ObjectHits(o, ray, tmin, tmax) == f_ObjectHits[o, ray, tmin, tmax]

-----------------------------------------------------------------------------
(* render_scene (raytracer.rs): the resumable parallel render loop *)

\* self.screen: images of one row are rendered
Screen == [width |-> ScreenW, height |-> 1]

Pixels == 1 .. (Screen.width * Screen.height)
Workers == 1 .. NWorkers
Jitters == 1 .. NJitter

\* let undone_color = Rgba([255u8, 0u8, 255u8, 0u8]);
undone_opaque == <<255, 0, 255, 255>>
undone_color == <<255, 0, 255, 0>>

\* Surface and sky colours of the scene: they come from Rgb<u8> values, so
\* every component is a multiple of 1/256.
Palette ==
    << RgbIntoVec(<<77, 143, 170>>), RgbIntoVec(<<237, 201, 175>>),
       RgbIntoVec(<<0, 0, 0>>), RgbIntoVec(<<255, 0, 255>>) >>

\* cast_ray_from_eye(scene, i, 1 - j) for the sample of pixel p that the
\* random draw j selects: the scene is read-only, so the colour is a fixed
\* function of the pixel and of the draw.  The ray through the pixel either
\* meets the surface in front of it or passes beside it.
cast_ray_from_eye(p, j) == Palette[((p + (j % 2)) % Len(Palette)) + 1]

\* The draw of sample number s of pixel p when the generator is deterministic.
DetJitter(p, s) == ((p + s) % NJitter) + 1

VAdd(a, b) == Vec3(QAdd(a.x, b.x), QAdd(a.y, b.y), QAdd(a.z, b.z))
VDivN(a, n) == Vec3(QDiv(a.x, QInt(n)), QDiv(a.y, QInt(n)), QDiv(a.z, QInt(n)))
VZero == Vec3(Zero, Zero, Zero)

\* r /= nsamples; g /= nsamples; b /= nsamples; **pixel = Vec3::new(r, g, b).into()
Averaged(acc) == VecIntoRgba(VDivN(acc, NSamples))

\* The file at pngpath.
NoFile == [kind |-> "none", width |-> 0, height |-> 0, fmt |-> "", px |-> <<>>]
Corrupt == [kind |-> "corrupt", width |-> 0, height |-> 0, fmt |-> "", px |-> <<>>]
Image(w, h, f, px) ==
    [kind |-> "image", width |-> w, height |-> h, fmt |-> f, px |-> px]

\* image::RgbaImage::new(width, height) with every pixel set to undone_color
FreshBuf == [p \in Pixels |-> undone_color]

\* buf.save(pngpath) writes the RgbaImage as it is
SavedImage(b) == Image(Screen.width, Screen.height, "rgba8", b)

\* Pixel values an existing file may hold besides the sentinel: a transparent
\* black and an opaque magenta.
Foreign(p) == IF p % 2 = 1 THEN <<0, 0, 0, 0>> ELSE <<255, 0, 255, 255>>

\* The files the first run may find: none, an unreadable one, an image of the
\* requested resolution whose first k pixels are already set, an image of
\* another width or height, an image without alpha channel.
InitDisks ==
    {NoFile, Corrupt}
    \cup {Image(Screen.width, Screen.height, "rgba8",
                [p \in Pixels |-> IF p <= k THEN Foreign(p) ELSE undone_color]) :
            k \in 0 .. Cardinality(Pixels)}
    \cup {Image(Screen.width + 1, Screen.height, "rgba8",
                [p \in 1 .. ((Screen.width + 1) * Screen.height) |-> undone_color]),
          Image(Screen.width, Screen.height + 1, "rgba8",
                [p \in 1 .. (Screen.width * (Screen.height + 1)) |-> undone_color]),
          Image(Screen.width, Screen.height, "rgb8",
                [p \in Pixels |-> <<0, 0, 0, 255>>])}

IdleWk ==
    [pc |-> "idle", pixel |-> 0, acc |-> VZero, n |-> 0, worked |-> FALSE,
     nb_pix |-> 0, pix_worked |-> 0]

pureIdle == [state |-> "idle"]

InitRender ==
    /\ disk \in InitDisks
    /\ seeded \in BOOLEAN
    /\ buf = FreshBuf
    /\ pc = "init"
    /\ stop = FALSE
    /\ nb_pix = 0
    /\ nb_pix_worked = 0
    /\ todo = {}
    /\ wk = [w \in Workers |-> IdleWk]
    /\ loaded = FreshBuf
    /\ origin = FreshBuf
    /\ chained = FALSE
    /\ computed = {}
    /\ late = [w \in Workers |-> 0]
    /\ saved = "none"

\* Open without the two assertions on the size of the image.
OpenUnchecked ==
    /\ pc = "init"
    /\ \E readable \in BOOLEAN :
         LET ok == disk.kind = "image" /\ readable IN
         IF ok /\ disk.fmt # "rgba8"
         THEN /\ pc' = "panic"
              /\ UNCHANGED <<buf, loaded, origin, chained, todo>>
         ELSE /\ pc' = "running"
              /\ buf' = IF ok THEN disk.px ELSE FreshBuf
              /\ loaded' = buf'
              /\ origin' = IF ok /\ chained THEN origin ELSE buf'
              /\ chained' = ok
              /\ todo' = Pixels
    /\ stop' = FALSE
    /\ nb_pix' = 0
    /\ nb_pix_worked' = 0
    /\ UNCHANGED <<disk, wk, seeded, computed, late, saved, cv, sv, hv, fv>>

\* Lines 222-242: open the existing image or start from a fresh buffer,
\* reset the counters and register the signal flag.
Open ==
    /\ pc = "init"
    /\ \E readable \in BOOLEAN :
         LET ok == disk.kind = "image" /\ readable IN
         IF ok /\ disk.fmt # "rgba8"
         THEN \* img.as_rgba8().unwrap() panics
              /\ pc' = "panic"
              /\ UNCHANGED <<buf, loaded, origin, chained, todo>>
         ELSE IF ok /\ (disk.height # Screen.height \/ disk.width # Screen.width)
         THEN \* assert!(buf.height() == ...) / assert!(buf.width() == ...)
              /\ pc' = "panic"
              /\ buf' = disk.px
              /\ UNCHANGED <<loaded, origin, chained, todo>>
         ELSE /\ pc' = "running"
              /\ buf' = IF ok THEN disk.px ELSE FreshBuf
              /\ loaded' = buf'
              /\ origin' = IF ok /\ chained THEN origin ELSE buf'
              /\ chained' = ok
              /\ todo' = Pixels
    /\ stop' = FALSE
    /\ nb_pix' = 0
    /\ nb_pix_worked' = 0
    /\ UNCHANGED <<disk, wk, seeded, computed, late, saved, cv, sv, hv, fv>>

\* SIGINT or SIGTERM: signal_hook sets the flag, nothing clears it.
Signal ==
    /\ pc = "running"
    /\ ~stop
    /\ stop' = TRUE
    /\ UNCHANGED <<disk, buf, pc, nb_pix, nb_pix_worked, todo, wk, seeded,
                   loaded, origin, chained, computed, late, saved, cv, sv, hv, fv>>

\* Visit without the test `**pixel == undone_color`: every pixel is computed.
VisitAlways(w, p) ==
    /\ pc = "running"
    /\ wk[w].pc = "idle"
    /\ p \in todo
    /\ todo' = todo \ {p}
    /\ IF stop
       THEN UNCHANGED wk
       ELSE wk' = [wk EXCEPT ![w] = [IdleWk EXCEPT !.pc = "sample", !.pixel = p]]
    /\ UNCHANGED <<disk, buf, pc, stop, nb_pix, nb_pix_worked, seeded,
                   loaded, origin, chained, computed, late, saved, cv, sv, hv, fv>>

\* Visit that takes every transparent pixel for an unfinished one.
VisitAlphaOnly(w, p) ==
    /\ pc = "running"
    /\ wk[w].pc = "idle"
    /\ p \in todo
    /\ todo' = todo \ {p}
    /\ IF stop
       THEN UNCHANGED wk
       ELSE IF buf[p][4] = undone_color[4]
       THEN wk' = [wk EXCEPT ![w] = [IdleWk EXCEPT !.pc = "sample", !.pixel = p]]
       ELSE wk' = [wk EXCEPT ![w] = [IdleWk EXCEPT !.pc = "count", !.pixel = p]]
    /\ UNCHANGED <<disk, buf, pc, stop, nb_pix, nb_pix_worked, seeded,
                   loaded, origin, chained, computed, late, saved, cv, sv, hv, fv>>

\* Visit that never loads the stop flag.
VisitNoStop(w, p) ==
    /\ pc = "running"
    /\ wk[w].pc = "idle"
    /\ p \in todo
    /\ todo' = todo \ {p}
    /\ IF buf[p] = undone_color
       THEN wk' = [wk EXCEPT ![w] = [IdleWk EXCEPT !.pc = "sample", !.pixel = p]]
       ELSE wk' = [wk EXCEPT ![w] = [IdleWk EXCEPT !.pc = "count", !.pixel = p]]
    /\ UNCHANGED <<disk, buf, pc, stop, nb_pix, nb_pix_worked, seeded,
                   loaded, origin, chained, computed, late, saved, cv, sv, hv, fv>>

\* Visit of a pool that may hand the same pixel out again.
VisitShared(w, p) ==
    /\ pc = "running"
    /\ wk[w].pc = "idle"
    /\ p \in todo
    /\ todo' = IF buf[p] = undone_color /\ ~stop THEN todo ELSE todo \ {p}
    /\ IF stop
       THEN UNCHANGED wk
       ELSE IF buf[p] = undone_color
       THEN wk' = [wk EXCEPT ![w] = [IdleWk EXCEPT !.pc = "sample", !.pixel = p]]
       ELSE wk' = [wk EXCEPT ![w] = [IdleWk EXCEPT !.pc = "count", !.pixel = p]]
    /\ UNCHANGED <<disk, buf, pc, stop, nb_pix, nb_pix_worked, seeded,
                   loaded, origin, chained, computed, late, saved, cv, sv, hv, fv>>

\* Visit that takes every pixel for a finished one.
VisitNoCompute(w, p) ==
    /\ pc = "running"
    /\ wk[w].pc = "idle"
    /\ p \in todo
    /\ todo' = todo \ {p}
    /\ IF stop
       THEN UNCHANGED wk
       ELSE wk' = [wk EXCEPT ![w] = [IdleWk EXCEPT !.pc = "count", !.pixel = p]]
    /\ UNCHANGED <<disk, buf, pc, stop, nb_pix, nb_pix_worked, seeded,
                   loaded, origin, chained, computed, late, saved, cv, sv, hv, fv>>

\* Lines 248-254 and 284-286: the pool hands pixel p to worker w, which loads
\* the flag and looks at the pixel.
Visit(w, p) ==
    /\ pc = "running"
    /\ wk[w].pc = "idle"
    /\ p \in todo
    /\ todo' = todo \ {p}
    /\ IF stop
       THEN UNCHANGED wk
       ELSE IF buf[p] = undone_color
       THEN wk' = [wk EXCEPT ![w] = [IdleWk EXCEPT !.pc = "sample", !.pixel = p]]
       ELSE wk' = [wk EXCEPT ![w] = [IdleWk EXCEPT !.pc = "count", !.pixel = p]]
    /\ UNCHANGED <<disk, buf, pc, stop, nb_pix, nb_pix_worked, seeded,
                   loaded, origin, chained, computed, late, saved, cv, sv, hv, fv>>

\* Lines 269-277: one pass of the sampling loop.
Sample(w) ==
    /\ wk[w].pc = "sample"
    /\ wk[w].n < NSamples
    /\ \E j \in (IF seeded THEN {DetJitter(wk[w].pixel, wk[w].n + 1)} ELSE Jitters) :
         wk' = [wk EXCEPT ![w].acc = VAdd(@, cast_ray_from_eye(wk[w].pixel, j)),
                          ![w].n = @ + 1]
    /\ UNCHANGED <<disk, buf, pc, stop, nb_pix, nb_pix_worked, todo, seeded,
                   loaded, origin, chained, computed, late, saved, cv, sv, hv, fv>>

\* WritePixel that does not wait for the end of the sampling loop.
WritePixelEarly(w) ==
    /\ wk[w].pc = "sample"
    /\ wk[w].n >= 1
    /\ buf' = [buf EXCEPT ![wk[w].pixel] = Averaged(wk[w].acc)]
    /\ wk' = [wk EXCEPT ![w].pc = "count", ![w].worked = TRUE]
    /\ computed' = computed \cup {wk[w].pixel}
    /\ late' = [late EXCEPT ![w] = IF stop THEN @ + 1 ELSE @]
    /\ UNCHANGED <<disk, pc, stop, nb_pix, nb_pix_worked, todo, seeded,
                   loaded, origin, chained, saved, cv, sv, hv, fv>>

\* Lines 279-283: the average is written over the sentinel.
WritePixel(w) ==
    /\ wk[w].pc = "sample"
    /\ wk[w].n = NSamples
    /\ buf' = [buf EXCEPT ![wk[w].pixel] = Averaged(wk[w].acc)]
    /\ wk' = [wk EXCEPT ![w].pc = "count", ![w].worked = TRUE]
    /\ computed' = computed \cup {wk[w].pixel}
    /\ late' = [late EXCEPT ![w] = IF stop THEN @ + 1 ELSE @]
    /\ UNCHANGED <<disk, pc, stop, nb_pix, nb_pix_worked, todo, seeded,
                   loaded, origin, chained, saved, cv, sv, hv, fv>>

\* Line 288: let nb_pix = nb_pix.fetch_add(1, SeqCst);
CountPix(w) ==
    /\ wk[w].pc = "count"
    /\ wk' = [wk EXCEPT ![w].pc = "worked", ![w].nb_pix = nb_pix]
    /\ nb_pix' = nb_pix + 1
    /\ UNCHANGED <<disk, buf, pc, stop, nb_pix_worked, todo, seeded,
                   loaded, origin, chained, computed, late, saved, cv, sv, hv, fv>>

\* skipped without the test of lines 295: the bare subtraction
SkippedUnguarded(l_nb_pix, l_pix_worked) == l_nb_pix - l_pix_worked

\* Lines 294-299: skipped, from the two values the worker read
Skipped(l_nb_pix, l_pix_worked) ==
    IF l_pix_worked > 0 /\ l_nb_pix > l_pix_worked
    THEN l_nb_pix - l_pix_worked
    ELSE 0

\* CountWorked that counts the pixels that were skipped too.
CountWorkedAlways(w) ==
    /\ wk[w].pc = "worked"
    /\ wk' = [wk EXCEPT ![w].pc = "print", ![w].pix_worked = nb_pix_worked]
    /\ nb_pix_worked' = nb_pix_worked + 1
    /\ UNCHANGED <<disk, buf, pc, stop, nb_pix, todo, seeded,
                   loaded, origin, chained, computed, late, saved, cv, sv, hv, fv>>

\* Lines 289-293: fetch_add when the pixel was computed, load otherwise;
\* both give the value the counter had.
CountWorked(w) ==
    /\ wk[w].pc = "worked"
    /\ wk' = [wk EXCEPT ![w].pc = "print", ![w].pix_worked = nb_pix_worked]
    /\ nb_pix_worked' = IF wk[w].worked THEN nb_pix_worked + 1 ELSE nb_pix_worked
    /\ UNCHANGED <<disk, buf, pc, stop, nb_pix, todo, seeded,
                   loaded, origin, chained, computed, late, saved, cv, sv, hv, fv>>

\* Line 237: let nb_pix_to_see = height * width
nb_pix_to_see == Screen.height * Screen.width

\* Lines 304-308: the factor of d_ms in end_ms, a subtraction of usize values
ToSee(l_nb_pix, l_pix_worked) == nb_pix_to_see - Skipped(l_nb_pix, l_pix_worked)

\* Line 317: the percentage printed
Percent(l_nb_pix) == (100 * l_nb_pix) \div nb_pix_to_see

\* Lines 294-320: the estimate is computed from the two values read and
\* printed, and the closure returns.
Estimate(w) ==
    /\ wk[w].pc = "print"
    /\ wk' = [wk EXCEPT ![w] = IdleWk]
    /\ UNCHANGED <<disk, buf, pc, stop, nb_pix, nb_pix_worked, todo, seeded,
                   loaded, origin, chained, computed, late, saved, cv, sv, hv, fv>>

\* Save that writes the image only when the run was not cancelled.
SaveUnlessStopped ==
    /\ pc = "running"
    /\ todo = {}
    /\ \A w \in Workers : wk[w].pc = "idle"
    /\ pc' = "done"
    /\ \E d \in {SavedImage(buf), disk, Corrupt} :
         /\ disk' = IF stop THEN disk ELSE d
         /\ saved' = IF stop THEN "none"
                     ELSE IF d = SavedImage(buf) THEN "ok" ELSE "failed"
         /\ chained' = IF stop THEN chained
                       ELSE IF d = SavedImage(buf) THEN TRUE
                       ELSE IF d = Corrupt THEN FALSE ELSE chained
    /\ UNCHANGED <<buf, stop, nb_pix, nb_pix_worked, todo, wk, seeded,
                   loaded, origin, computed, late, cv, sv, hv, fv>>

\* Line 322: buf.save(pngpath).ok(), once for_each has returned. A failed
\* write is ignored; it leaves the old file or a truncated one.
Save ==
    /\ pc = "running"
    /\ todo = {}
    /\ \A w \in Workers : wk[w].pc = "idle"
    /\ pc' = "done"
    /\ \E d \in {SavedImage(buf), disk, Corrupt} :
         /\ disk' = d
         /\ saved' = IF d = SavedImage(buf) THEN "ok" ELSE "failed"
         /\ chained' = IF d = SavedImage(buf) THEN TRUE
                       ELSE IF d = Corrupt THEN FALSE ELSE chained
    /\ UNCHANGED <<buf, stop, nb_pix, nb_pix_worked, todo, wk, seeded,
                   loaded, origin, computed, late, cv, sv, hv, fv>>

\* The program is started again on the same output path (main.rs, the
\* render subcommand).
Rerun ==
    /\ pc = "done"
    /\ pc' = "init"
    /\ buf' = FreshBuf
    /\ loaded' = FreshBuf
    /\ stop' = FALSE
    /\ nb_pix' = 0
    /\ nb_pix_worked' = 0
    /\ computed' = {}
    /\ late' = [w \in Workers |-> 0]
    /\ saved' = "none"
    /\ UNCHANGED <<disk, todo, wk, seeded, origin, chained, cv, sv, hv, fv>>

Init ==
    /\ InitRender
    /\ cv = pureIdle
    /\ sv = pureIdle
    /\ hv = pureIdle
    /\ fv = pureIdle

Next ==
    \/ Open
    \/ Signal
    \/ \E w \in Workers, p \in Pixels : Visit(w, p)
    \/ \E w \in Workers : Sample(w)
    \/ \E w \in Workers : WritePixel(w)
    \/ \E w \in Workers : CountPix(w)
    \/ \E w \in Workers : CountWorked(w)
    \/ \E w \in Workers : Estimate(w)
    \/ Save
    \/ Rerun

Spec == Init /\ [][Next]_vars

\* The worker pool runs every worker that has something to do, and the main
\* thread goes on once for_each has returned.
WorkerStep ==
    \/ \E w \in Workers, p \in Pixels : Visit(w, p)
    \/ \E w \in Workers :
          Sample(w) \/ WritePixel(w) \/ CountPix(w) \/ CountWorked(w) \/ Estimate(w)

FairSpec == Spec /\ WF_vars(WorkerStep) /\ WF_vars(Save)

-----------------------------------------------------------------------------
(* Properties of render_scene *)

Started == pc \in {"running", "done"}
Sentinels(b) == {p \in Pixels : b[p] = undone_color}

RECURSIVE SumSamples(_, _, _)
SumSamples(p, js, i) ==
    IF i = 0 THEN VZero
    ELSE VAdd(SumSamples(p, js, i - 1), cast_ray_from_eye(p, js[i]))

\* The values pixel p can take when all its samples are averaged.
FullValues ==
    [p \in Pixels |->
        {VecIntoRgba(VDivN(SumSamples(p, js, NSamples), NSamples)) :
            js \in [1 .. NSamples -> Jitters]}]

\* The value of pixel p under deterministic sampling.
Expected ==
    [p \in Pixels |->
        VecIntoRgba(VDivN(SumSamples(p, [s \in 1 .. NSamples |-> DetJitter(p, s)],
                                     NSamples), NSamples))]

\* The image an uninterrupted run makes of buffer o under deterministic sampling.
Uninterrupted(o) ==
    [p \in Pixels |-> IF o[p] = undone_color THEN Expected[p] ELSE o[p]]

\* C1  Resume idempotence: a run that loads a buffer without any sentinel
\* pixel computes no pixel (the freshly-computed counter stays 0), changes no
\* pixel, and the image it saves is the image it loaded.
C1_ResumeIdempotence ==
    (Started /\ Sentinels(loaded) = {}) =>
        /\ nb_pix_worked = 0
        /\ computed = {}
        /\ \A w \in Workers : wk[w].pc # "sample" /\ ~wk[w].worked
        /\ buf = loaded
        /\ (pc = "done" /\ saved = "ok") => disk = SavedImage(loaded)

\* A run on the image that earlier runs rendered fully from a fresh buffer
\* has visited every pixel and saved.
C1_Witness ==
    /\ pc = "done" /\ saved = "ok"
    /\ origin = FreshBuf /\ Sentinels(loaded) = {}
    /\ nb_pix = Cardinality(Pixels)

\* C2  Cancellation safety: in every state, cancelled or not, each pixel of the
\* buffer (and of the saved image) is the sentinel, its loaded value or the
\* average of all NSamples samples; a pixel being sampled still holds the
\* sentinel, and a written pixel is the average of a complete accumulation.
\* Under deterministic sampling a chain of cancelled and resumed runs that
\* leaves no sentinel ends with the image of an uninterrupted run.
C2_CancellationSafety ==
    Started =>
        /\ \A p \in Pixels :
             \/ buf[p] = undone_color
             \/ buf[p] = loaded[p]
             \/ buf[p] \in FullValues[p]
        /\ \A w \in Workers :
             /\ wk[w].pc = "sample" => buf[wk[w].pixel] = undone_color
             /\ wk[w].worked =>
                  /\ wk[w].n = NSamples
                  /\ buf[wk[w].pixel] = VecIntoRgba(VDivN(wk[w].acc, NSamples))
        /\ (pc = "done" /\ saved = "ok") => disk = SavedImage(buf)
        /\ (seeded /\ pc = "done" /\ Sentinels(buf) = {}) =>
               buf = Uninterrupted(origin)

\* A run on a fresh buffer was cancelled with some pixels computed and some
\* not, and the run that resumed from its image has completed it.
C2_Witness ==
    /\ pc = "done" /\ seeded /\ saved = "ok"
    /\ origin = FreshBuf
    /\ Sentinels(loaded) # {} /\ Sentinels(loaded) # Pixels
    /\ Sentinels(buf) = {}

\* C3  The stop flag, once set, stays set for the rest of the run; a worker
\* that is idle when the flag is set starts no pixel, so only a pixel that is
\* being sampled is written; each worker writes at most one pixel after the
\* flag was set.
C3_StopIsFinal ==
    /\ [](\A w \in Workers : late[w] <= 1)
    /\ [][(stop /\ pc' # "init") =>
            /\ stop'
            /\ \A w \in Workers : wk[w].pc = "idle" => wk'[w].pc = "idle"
            /\ \A p \in Pixels :
                 buf'[p] # buf[p] => \E w \in Workers :
                     wk[w].pc = "sample" /\ wk[w].pixel = p]_vars

\* A worker was computing a pixel when the flag was set and has written it,
\* and a pixel handed out after the flag was set still holds the sentinel.
C3_Witness ==
    /\ pc = "done" /\ stop
    /\ \E w \in Workers : late[w] = 1
    /\ Sentinels(buf) # {}

\* What a run has done when it ends: the buffer was handed to save and, when
\* the write succeeded, the file is that buffer; its sentinel pixels are the
\* loaded sentinel pixels that no worker computed.
C4_SaveSafe ==
    /\ Started => computed \subseteq Sentinels(loaded)
    /\ pc = "done" =>
         /\ saved \in {"ok", "failed"}
         /\ saved = "ok" => disk = SavedImage(buf)
         /\ Sentinels(buf) = Sentinels(loaded) \ computed
         /\ ~stop => computed = Sentinels(loaded)

\* C4  Every run that gets past initialisation ends with buf.save(), whether
\* all pixels were processed or the run was cancelled: the parallel loop
\* always terminates and the buffer is then written to the output path.  The
\* sentinel pixels of the saved buffer are exactly the pixels that were not
\* computed (those a next run computes); a run computes only loaded sentinel
\* pixels, and all of them when it is not cancelled.
C4_AlwaysPersisted ==
    /\ []C4_SaveSafe
    /\ (pc = "running") ~> (pc = "done")

\* A cancelled run has saved an image with computed and sentinel pixels.
C4_Witness ==
    /\ pc = "done" /\ stop /\ saved = "ok"
    /\ computed # {}
    /\ Sentinels(disk.px) # {}

\* C5  A pixel that does not hold the sentinel is never written: the pixels a
\* run computes held the sentinel when loaded, every other pixel keeps its
\* loaded value in the buffer and in the saved image.
C5_ComputedPixelsKept ==
    Started =>
        /\ computed \subseteq Sentinels(loaded)
        /\ \A p \in Pixels : loaded[p] # undone_color =>
             /\ buf[p] = loaded[p]
             /\ (pc = "done" /\ saved = "ok") => disk.px[p] = loaded[p]

\* A partially rendered image was loaded (one pixel is a transparent black),
\* its sentinel pixels were computed and the image saved.
C5_Witness ==
    /\ pc = "done" /\ saved = "ok" /\ computed # {}
    /\ \E p \in Pixels : loaded[p] = <<0, 0, 0, 0>> /\ disk.px[p] = <<0, 0, 0, 0>>

\* C6  A pixel written by a worker never equals the sentinel: it differs from
\* it by its alpha channel, whatever its colour.
C6_WrittenIsNotSentinel ==
    Started => \A p \in computed :
        /\ buf[p] # undone_color
        /\ buf[p][4] # undone_color[4]

\* A worker has written a pixel whose samples average to magenta.
C6_Witness ==
    /\ Started
    /\ \E p \in computed :
         buf[p][1] = 255 /\ buf[p][2] = 0 /\ buf[p][3] = 255

-----------------------------------------------------------------------------
(* solve_3variable_system applied to drawn inputs *)

MaxCoef == 1

\* The render loop at rest, while a pure function is exercised.
RenderIdle == InitRender /\ disk = NoFile /\ seeded

P3(x, y, z) == Vec3(QInt(x), QInt(y), QInt(z))

SolverVecs == {P3(x, y, z) : x, y, z \in 0 .. MaxCoef}

\* tests::solve_3variable_system_test
TestInput ==
    [a |-> P3(2, 5, -2), b |-> P3(3, -1, -2), c |-> P3(-4, 2, 3), p |-> P3(-5, 15, 3)]

\* The points ray.at(t) that Triangle::hits passes as p: t is not tested for
\* NaN (object.rs:213), so p may be finite or not.
SolverTargets == SolverVecs \cup {Vec3(NaN, NaN, NaN), Vec3(Inf, Zero, One)}

SolverInputs ==
    [a : SolverVecs, b : SolverVecs, c : SolverVecs, p : SolverTargets] \cup {TestInput}

InitSolver ==
    /\ RenderIdle
    /\ fv = pureIdle
    /\ cv = pureIdle
    /\ hv = pureIdle
    /\ \E i \in SolverInputs : sv = [state |-> "input", in |-> i]

Solve ==
    /\ sv.state = "input"
    /\ sv' = [state |-> "solved", in |-> sv.in,
              out |-> solve_3variable_system(sv.in.a, sv.in.b, sv.in.c, sv.in.p)]
    /\ UNCHANGED <<renderVars, cv, hv, fv>>

NextSolver == Solve

SpecSolver == InitSolver /\ [][NextSolver]_vars

\* x.a + y.b + z.c
Combination(r, a, b, c) ==
    Vec3(QAdd(QAdd(QMul(r.x, a.x), QMul(r.y, b.x)), QMul(r.z, c.x)),
         QAdd(QAdd(QMul(r.x, a.y), QMul(r.y, b.y)), QMul(r.z, c.y)),
         QAdd(QAdd(QMul(r.x, a.z), QMul(r.y, b.z)), QMul(r.z, c.z)))

\* C7  Whenever solve_3variable_system(a, b, c, p) returns a solution
\* (x, y, z), it satisfies x.a + y.b + z.c = p in the three coordinates, also
\* when rows were swapped.  (Violated: after a row swap the components of the
\* solution are swapped too.)
C7_SolutionSatisfiesSystem ==
    (sv.state = "solved" /\ IsSome(sv.out.res)) =>
        Combination(Unwrap(sv.out.res), sv.in.a, sv.in.b, sv.in.c) = sv.in.p

-----------------------------------------------------------------------------
(* Object::hits applied to drawn objects, rays and intervals *)

MaxT == 5

Blue == <<77, 143, 170>>
Sand == <<237, 201, 175>>

\* The ground
ThePlan == PlanNew(P3(0, 0, 0), P3(0, 1, 0), Sand)
TheSphere == SphereNew(P3(5, 6, 5), QInt(2), Blue)
TheEllipsoid == EllipsoidNew(P3(5, 6, 5), P3(1, 2, 1), Blue)
\* Corners with rational coordinates and faces of rational area
TheTetrahedron == TetrahedronNew(P3(4, 4, 8), P3(4, 4, 4), P3(8, 4, 4), P3(4, 12, 4), Blue)
LowTetrahedron == TetrahedronNew(P3(4, 2, 8), P3(4, 2, 4), P3(8, 2, 4), P3(4, 10, 4), Blue)
TheTriangle == TheTetrahedron.base
BoundingSphere == SphereNew(P3(5, 6, 5), QInt(6), <<0, 0, 0>>)
TheConifer ==
    [kind |-> "conifer", tetrahedrons |-> <<TheTetrahedron, LowTetrahedron>>,
     bounding_sphere |-> BoundingSphere]
TheOwl ==
    [kind |-> "owl", objects |-> <<TheEllipsoid, TheSphere, TheTetrahedron>>,
     bounding_sphere |-> BoundingSphere]
TheSignature ==
    [kind |-> "signature", objects |-> <<TheSphere, TheEllipsoid>>,
     bounding_sphere |-> BoundingSphere]

HitsObjects ==
    {ThePlan, TheSphere, TheEllipsoid, TheTriangle, TheTetrahedron,
     TheConifer, TheOwl, TheSignature}

\* Rays going up and down through the objects, and rays along the ground
HitsRays ==
    {Ray(P3(5, 0, 5), P3(0, 1, 0)), Ray(P3(5, 0, 5), P3(0, 2, 0)),
     Ray(P3(5, 10, 5), P3(0, -1, 0)), Ray(P3(5, 2, 5), P3(0, -1, 0)),
     Ray(P3(0, 0, 0), P3(1, 0, 0)), Ray(P3(0, 1, 0), P3(1, 0, 0))}

TBounds == {QInt(n) : n \in 0 .. MaxT}

InitHits ==
    /\ RenderIdle
    /\ fv = pureIdle
    /\ cv = pureIdle
    /\ sv = pureIdle
    /\ \E o \in HitsObjects, r \in HitsRays, tmin \in TBounds,
          tmax \in TBounds \cup {Inf} :
         hv = [state |-> "input", o |-> o, ray |-> r, tmin |-> tmin, tmax |-> tmax]

Hits ==
    /\ hv.state = "input"
    /\ hv' = [state |-> "done", o |-> hv.o, ray |-> hv.ray,
              tmin |-> hv.tmin, tmax |-> hv.tmax,
              res |-> ObjectHits(hv.o, hv.ray, hv.tmin, hv.tmax)]
    /\ UNCHANGED <<renderVars, cv, sv, fv>>

NextHits == Hits

SpecHits == InitHits /\ [][NextHits]_vars

\* C8  Every hit returned by hits of any kind of object called with the
\* interval (tmin, tmax) has tmin < t < tmax strictly.  (Violated: a
\* tetrahedron, and the objects made of several parts, return hits with
\* t = tmin or t = tmax; a plane returns a hit with t = NaN.)
C8_HitStrictlyInside ==
    (hv.state = "done" /\ IsSome(hv.res)) =>
        QLt(hv.tmin, Unwrap(hv.res).t) /\ QLt(Unwrap(hv.res).t, hv.tmax)

-----------------------------------------------------------------------------
(* The colour conversions applied to drawn vectors *)

Sub == 2
Margin == 8

\* Components from below 0 to above 1, Sub values per quantization step
ColourInputs == {Q(n, Levels * Sub) : n \in -Margin .. (Levels * Sub + Margin)}

InitColour ==
    /\ RenderIdle
    /\ fv = pureIdle
    /\ sv = pureIdle
    /\ hv = pureIdle
    /\ \E v \in ColourInputs :
         cv = [state |-> "input", v |-> Vec3(v, QSub(One, v), QDiv(v, QInt(2)))]

\* let c: Rgb<u8> = v.into();
IntoRgb ==
    /\ cv.state = "input"
    /\ cv' = [state |-> "rgb", v |-> cv.v, rgb |-> VecIntoRgb(cv.v)]
    /\ UNCHANGED <<renderVars, sv, hv, fv>>

\* let w: Vec3 = c.into();
IntoVec ==
    /\ cv.state = "rgb"
    /\ cv' = [state |-> "vec", v |-> cv.v, rgb |-> cv.rgb, back |-> RgbIntoVec(cv.rgb)]
    /\ UNCHANGED <<renderVars, sv, hv, fv>>

NextColour == IntoRgb \/ IntoVec

SpecColour == InitColour /\ [][NextColour]_vars

Comp(v, k) == IF k = 1 THEN v.x ELSE IF k = 2 THEN v.y ELSE v.z

\* C9  Colour round trip: a component v in [0, 1] converted to a byte and
\* back gives v' with |v - v'| <= 1/256, one quantization step.
C9_RoundTrip ==
    cv.state = "vec" =>
        \A k \in 1 .. 3 :
            (QLe(Zero, Comp(cv.v, k)) /\ QLe(Comp(cv.v, k), One)) =>
                QLe(QAbs(QSub(Comp(cv.v, k), Comp(cv.back, k))), Q(1, Levels))

\* The component 1 comes back as 255/256: the error is exactly one step.
C9_Witness ==
    /\ cv.state = "vec"
    /\ cv.v.x = One
    /\ cv.back.x = Q(255, 256)
    /\ QSub(cv.v.x, cv.back.x) = Q(1, Levels)

\* C10  Colour clamping: a component <= 0 gives the byte 0, a component >= 1
\* the byte 255, a component strictly between a byte of 0..255 that is the
\* integer part of 256 v (no wrap-around); the byte is non-decreasing in the
\* component.
C10_ClampedMonotone ==
    cv.state \in {"rgb", "vec"} =>
        /\ \A k \in 1 .. 3 :
             LET v == Comp(cv.v, k)
                 byte == cv.rgb[k]
             IN  /\ byte \in 0 .. 255
                 /\ QLe(v, Zero) => byte = 0
                 /\ QLe(One, v) => byte = 255
                 /\ (QLt(Zero, v) /\ QLt(v, One)) =>
                        /\ QLe(QInt(byte), QMul(v, QInt(256)))
                        /\ QLt(QMul(v, QInt(256)), QInt(byte + 1))
        /\ \A k, l \in 1 .. 3 :
             QLe(Comp(cv.v, k), Comp(cv.v, l)) => cv.rgb[k] <= cv.rgb[l]

\* Components strictly between 0 and 1 give the extreme bytes: the largest
\* one below 1 gives 255 (not 256), the smallest one above 0 gives 0.
C10_Witness ==
    /\ cv.state = "rgb"
    /\ QLt(cv.v.x, One) /\ cv.rgb[1] = 255
    /\ QLt(Zero, cv.v.y) /\ cv.rgb[2] = 0

-----------------------------------------------------------------------------
(* Footprint (raytracer.rs), Circle and generate_forest_monte_carlo (scene.rs) *)

\* Vec3::length_sq_to
f_length_sq_to[u \in Vec3Set, p \in Vec3Set] ==
    QAdd(QAdd(QMul(QSub(u.x, p.x), QSub(u.x, p.x)),
              QMul(QSub(u.y, p.y), QSub(u.y, p.y))),
         QMul(QSub(u.z, p.z), QSub(u.z, p.z)))
length_sq_to(u, p) == f_length_sq_to[u, p]

\* Vec3::avg
f_avg[u \in Vec3Set, with \in Vec3Set] ==
    Vec3(QDiv(QAdd(with.x, u.x), QInt(2)), QDiv(QAdd(with.y, u.y), QInt(2)),
         QDiv(QAdd(with.z, u.z), QInt(2)))
avg(u, with) == f_avg[u, with]

\* Vec3::mix
f_mix[u \in Vec3Set, v \in Vec3Set, c \in Rat] ==
    Vec3(QAdd(QMul(u.x, QSub(One, c)), QMul(v.x, c)),
         QAdd(QMul(u.y, QSub(One, c)), QMul(v.y, c)),
         QAdd(QMul(u.z, QSub(One, c)), QMul(v.z, c)))
mix(u, v, c) == f_mix[u, v, c]

\* struct Footprint { ne, nw, se, sw }
Footprint(ne, nw, se, sw) == [ne |-> ne, nw |-> nw, se |-> se, sw |-> sw]

\* Footprint::get_real_position
get_real_position(self, i, j) ==
    mix(mix(self.sw, self.nw, j), mix(self.se, self.ne, j), i)

\* Footprint::get_surface: north is computed from sw and se, as south is.
get_surface(self) ==
    LET south == QSqrt(length_sq_to(self.sw, self.se))
        north == QSqrt(length_sq_to(self.sw, self.se))
        avg_south == avg(self.sw, self.se)
        avg_north == avg(self.nw, self.ne)
        h == QSqrt(length_sq_to(avg_south, avg_north))
    IN  QMul(h, QAdd(south, QDiv(QSub(north, south), QInt(2))))

\* Circle::new
Circle(center, radix) == [center |-> center, radix |-> radix]

\* Circle::intersects
CircleIntersects(self, other) ==
    LET len_sq == length_sq_to(self.center, other.center)
        r0 == self.radix
        r1 == other.radix
    IN  /\ QLe(QMul(QSub(r0, r1), QSub(r0, r1)), len_sq)
        /\ QLe(len_sq, QMul(QAdd(r0, r1), QAdd(r0, r1)))

\* Circle::intersects_with_vect
intersects_with_vect(self, vec) ==
    \E n \in 1 .. Len(vec) : CircleIntersects(self, vec[n])

\* std::f64::consts::PI, by the rational 22/7
PI == Q(22, 7)

\* let decreasing_factor = 0.8_f64
decreasing_factor == Q(4, 5)

\* if tries > 50
MaxTries == 50

\* An f64 multiplied by 0.8 again and again is 0 after finitely many
\* multiplications: after MaxShrink of them here.
MaxShrink == 2

\* x *= decreasing_factor, the (shrinks + 1)-th time
Decreased(x, shrinks) ==
    IF shrinks + 1 >= MaxShrink THEN Zero ELSE QMul(x, decreasing_factor)

\* The values rng.gen::<f64>() returns, in [0, 1): k / GridI for i and for
\* rnd_factor, k / GridJ for j
GridI == 2
GridJ == 1
DrawsI == {Q(k, GridI) : k \in 0 .. GridI - 1}
DrawsJ == {Q(k, GridJ) : k \in 0 .. GridJ - 1}

\* Rectangles, and a trapezoid whose north side is longer than its south side
Ground(x, z) == Vec3(x, Zero, z)
Rectangle(w, d) ==
    Footprint(Ground(w, d), Ground(Zero, d), Ground(w, Zero), Ground(Zero, Zero))
Trapezoid ==
    Footprint(Ground(QInt(4), QInt(2)), Ground(Zero, QInt(2)),
              Ground(One, Zero), Ground(Zero, Zero))
\* The calls: footprint and threshold
ForestCalls ==
    {<<Rectangle(QInt(2), One), Q(1, 2)>>, <<Rectangle(Q(1, 4), Q(1, 4)), Q(1, 2)>>,
     <<Trapezoid, Q(1, 10)>>}

\* The call generate_forest_monte_carlo(footprint, threshold)
InitForest ==
    /\ RenderIdle
    /\ cv = pureIdle
    /\ sv = pureIdle
    /\ hv = pureIdle
    /\ \E call \in ForestCalls :
         fv = [state |-> "call", footprint |-> call[1], threshold |-> call[2]]

\* Lines 366-374: the locals before the loop
EnterForest ==
    /\ fv.state = "call"
    /\ fv' = [state |-> "loop", footprint |-> fv.footprint, threshold |-> fv.threshold,
              width |-> Q(3, 2), r |-> QDiv(Q(3, 2), QInt(4)), shrinks |-> 0,
              surface_max |-> QMul(get_surface(fv.footprint), fv.threshold),
              surface |-> Zero, vec |-> <<>>, objects |-> <<>>, trees |-> 0,
              tries |-> 0]
    /\ UNCHANGED <<renderVars, cv, sv, hv>>

\* Lines 377-383: the draws of an iteration and the circle tried
Tried(i, j) == Circle(get_real_position(fv.footprint, i, j), fv.r)
rnd_factor(u) == QAdd(Q(7, 10), QMul(Q(6, 10), u))

\* RejectTree that decreases r at every rejection.
RejectTreeAlwaysDecreasing ==
    /\ fv.state = "loop"
    /\ \E i \in DrawsI, j \in DrawsJ :
         /\ \E c \in {Tried(i, j)} : intersects_with_vect(c, fv.vec)
         /\ LET tries == IF fv.tries > MaxTries + 1 THEN MaxTries + 1 ELSE fv.tries + 1
            IN  fv' = [fv EXCEPT !.tries = tries,
                                 !.width = Decreased(fv.width, fv.shrinks),
                                 !.r = Decreased(fv.r, fv.shrinks),
                                 !.shrinks = IF fv.shrinks < MaxShrink
                                             THEN fv.shrinks + 1 ELSE fv.shrinks]
    /\ UNCHANGED <<renderVars, cv, sv, hv>>

\* Lines 385-390: the circle intersects one already placed. Once above 50,
\* tries is only read by tries > 50: it is kept among 51 and 52.
RejectTree ==
    /\ fv.state = "loop"
    /\ \E i \in DrawsI, j \in DrawsJ :
         /\ \E c \in {Tried(i, j)} : intersects_with_vect(c, fv.vec)
         /\ LET tries == IF fv.tries > MaxTries + 1 THEN MaxTries + 1 ELSE fv.tries + 1
            IN  fv' = IF tries > MaxTries
                      THEN [fv EXCEPT !.tries = tries,
                                      !.width = Decreased(fv.width, fv.shrinks),
                                      !.r = Decreased(fv.r, fv.shrinks),
                                      !.shrinks = IF fv.shrinks < MaxShrink
                                                  THEN fv.shrinks + 1 ELSE fv.shrinks]
                      ELSE [fv EXCEPT !.tries = tries]
    /\ UNCHANGED <<renderVars, cv, sv, hv>>

\* Lines 391-401: the circle is placed, with a conifer of width this_width;
\* the loop is left when surface >= surface_max.
PlaceTree ==
    /\ fv.state = "loop"
    /\ \E i \in DrawsI, j \in DrawsJ : \E c \in {Tried(i, j)} :
         /\ ~intersects_with_vect(c, fv.vec)
         /\ \E u \in DrawsI :
              \E this_r \in {QMul(fv.r, rnd_factor(u))},
                 this_width \in {QMul(fv.width, rnd_factor(u))} :
              \E surface \in {QAdd(fv.surface, QMul(QMul(PI, this_r), this_r))} :
                fv' = [fv EXCEPT !.tries = 0,
                                 !.objects = Append(fv.objects,
                                                    [pos |-> c.center, width |-> this_width]),
                                 !.vec = Append(fv.vec, c),
                                 !.trees = fv.trees + 1,
                                 !.surface = surface,
                                 !.state = IF QLe(fv.surface_max, surface)
                                           THEN "returned" ELSE "loop"]
    /\ UNCHANGED <<renderVars, cv, sv, hv>>

NextForest == EnterForest \/ RejectTree \/ PlaceTree

SpecForest == InitForest /\ [][NextForest]_vars

\* The thread runs, and a position that can be placed is drawn again and again.
FairForest ==
    SpecForest /\ WF_vars(EnterForest) /\ WF_vars(RejectTree \/ PlaceTree)
               /\ SF_vars(PlaceTree)

QuadArea(f) ==
    LET Det(p, q) == QSub(QMul(p.x, q.z), QMul(q.x, p.z))
    IN  QDiv(QAbs(QAdd(QAdd(Det(f.sw, f.se), Det(f.se, f.ne)),
                       QAdd(Det(f.ne, f.nw), Det(f.nw, f.sw)))), QInt(2))

\* C12  Forest coverage bound: when generate_forest_monte_carlo returns, the
\* sum of the circular areas of the trees placed is at least threshold times
\* the area of the footprint and less than the area of the footprint.
\* (Violated: the last tree may pass the area of a small footprint, and
\* get_surface is not the area of a footprint whose north and south sides
\* differ.)
C12_CoverageBound ==
    fv.state = "returned" =>
        /\ QLe(QMul(fv.threshold, QuadArea(fv.footprint)), fv.surface)
        /\ QLt(fv.surface, QuadArea(fv.footprint))

\* C13  Forest non-overlap: whatever the attempts made, also after r has
\* shrunk, the centres of any two circles placed are further apart than the
\* sum of their radii.  (Violated: Circle::intersects is false for a circle
\* inside another one, so a smaller circle is placed inside a larger one.)
C13_NoOverlap ==
    fv.state \in {"loop", "returned"} =>
        \A m \in 1 .. Len(fv.vec), n \in 1 .. Len(fv.vec) :
            m < n =>
                QLt(QMul(QAdd(fv.vec[m].radix, fv.vec[n].radix),
                         QAdd(fv.vec[m].radix, fv.vec[n].radix)),
                    length_sq_to(fv.vec[m].center, fv.vec[n].center))

-----------------------------------------------------------------------------
(* Triangle::hits and Sphere::hits applied to rays aimed at a point *)

MaxD == 2
MaxRadius == 2

\* A triangle whose first coefficient is 0, one with a corner on the x axis,
\* and one on the ground
SideTriangle == TriangleNew(P3(0, 2, 0), P3(4, 2, 0), P3(0, 2, 4), Blue)
AxisTriangle == TriangleNew(P3(4, 3, 0), P3(4, 0, 0), P3(4, 3, 4), Blue)
GroundTriangle == TriangleNew(P3(0, 0, 0), P3(4, 0, 0), P3(0, 0, 4), Sand)
AimedTriangles == {TheTriangle, SideTriangle, AxisTriangle, GroundTriangle}

\* Weights of the corners: of the centroid and of another point inside, and
\* of three points of the plane outside the triangle
AimWeights ==
    {<<Q(1, 3), Q(1, 3), Q(1, 3)>>, <<Q(1, 2), Q(1, 4), Q(1, 4)>>,
     <<Q(-1, 2), Q(3, 4), Q(3, 4)>>, <<QInt(2), Q(-1, 2), Q(-1, 2)>>,
     <<Q(1, 2), One, Q(-1, 2)>>}

Scaled(u, k) == Vec3(QMul(k, u.x), QMul(k, u.y), QMul(k, u.z))
Weighted(tri, w) == addv(addv(Scaled(tri.a, w[1]), Scaled(tri.b, w[2])), Scaled(tri.c, w[3]))

\* The ray that starts d in front of the point p of the triangle and goes to
\* it against the normal, with a direction of length k
AimedRay(tri, p, d, k) == Ray(at(tri.normal, p, QInt(d)), Scaled(tri.normal, QInt(-k)))

\* The six unit vectors of the axes
Axes == {P3(1, 0, 0), P3(-1, 0, 0), P3(0, 1, 0), P3(0, -1, 0), P3(0, 0, 1), P3(0, 0, -1)}

\* Directions towards the plan and away from it, steep, nearly parallel to
\* it (|direction.normal| = EPSILON / 2) and parallel to it
PlanDirections ==
    {P3(0, -1, 0), P3(0, 1, 0), P3(1, -1, 0), P3(1, 1, 0), P3(1, 0, 0),
     Vec3(One, qdiv[EPSILON, QInt(-2)], Zero), Vec3(One, qdiv[EPSILON, QInt(2)], Zero)}

InitAimed ==
    /\ RenderIdle
    /\ fv = pureIdle
    /\ cv = pureIdle
    /\ sv = pureIdle
    /\ \/ \E tri \in AimedTriangles, w \in AimWeights, d \in 1 .. MaxD, k \in 1 .. 2,
            tmax \in {QInt(MaxD + 1), Inf} :
            hv = [state |-> "input", o |-> tri,
                  ray |-> AimedRay(tri, Weighted(tri, w), d, k),
                  tmin |-> Zero, tmax |-> tmax]
       \/ \E radius \in 1 .. MaxRadius, d \in 1 .. MaxD, axis \in Axes :
            hv = [state |-> "input",
                  o |-> SphereNew(P3(0, 0, 0), QInt(radius), Blue),
                  ray |-> Ray(Scaled(axis, QInt(radius + d)), Scaled(axis, QInt(-1))),
                  tmin |-> Zero, tmax |-> Inf]
       \/ \E h \in (0 - MaxD) .. MaxD, direction \in PlanDirections,
            tmax \in {QInt(MaxD + 1), Inf} :
            hv = [state |-> "input", o |-> ThePlan,
                  ray |-> Ray(P3(0, h, 0), direction),
                  tmin |-> Zero, tmax |-> tmax]

SpecAimed == InitAimed /\ [][NextHits]_vars

\* Where the ray meets the plane of the triangle
PlaneT(tri, ray) ==
    QDiv(dot_product(to(ray.origin, tri.a), tri.normal),
         dot_product(ray.direction, tri.normal))

\* On which side of the edge from u to v the point p of the plane lies
EdgeSide(tri, u, v, p) == dot_product(cross_product(to(u, v), to(u, p)), tri.normal)
EdgeSides(tri, p) ==
    {EdgeSide(tri, tri.a, tri.b, p), EdgeSide(tri, tri.b, tri.c, p),
     EdgeSide(tri, tri.c, tri.a, p)}
StrictlyInside(tri, p) ==
    \/ \A e \in EdgeSides(tri, p) : QLt(Zero, e)
    \/ \A e \in EdgeSides(tri, p) : QLt(e, Zero)
StrictlyOutside(tri, p) ==
    /\ \E e \in EdgeSides(tri, p) : QLt(Zero, e)
    /\ \E e \in EdgeSides(tri, p) : QLt(e, Zero)

\* C14  Triangle containment: for a ray that reaches the plane of a
\* triangle from its front side at t inside (tmin, tmax), Triangle::hits
\* returns a hit with that t when the point lies strictly inside the
\* triangle, and no hit when it lies outside.  (Violated: a triangle whose
\* plane holds the origin, or whose second corner is on the x axis, is never
\* hit.)
C14_TriangleContainment ==
    (/\ hv.state = "done"
     /\ hv.o.kind = "triangle"
     /\ QLt(dot_product(hv.ray.direction, hv.o.normal), Zero)
     /\ QLt(hv.tmin, PlaneT(hv.o, hv.ray))
     /\ QLt(PlaneT(hv.o, hv.ray), hv.tmax)) =>
        LET t == PlaneT(hv.o, hv.ray)
            p == RayAt(hv.ray, t)
        IN  /\ StrictlyInside(hv.o, p) => (IsSome(hv.res) /\ Unwrap(hv.res).t = t)
            /\ StrictlyOutside(hv.o, p) => hv.res = None

\* C15  Sphere front face: for a sphere of radius r centred at the origin
\* and a ray that starts on an axis at distance d > r and points at the
\* centre, Sphere::hits(ray, 0, +infinity) returns a hit with t = d - r whose
\* normal has length 1 and points outward.
C15_SphereFrontFace ==
    (hv.state = "done" /\ hv.o.kind = "sphere" /\ hv.o.center = P3(0, 0, 0)) =>
        /\ IsSome(hv.res)
        /\ Unwrap(hv.res).t = QSub(QSqrt(length_sq(hv.ray.origin)), hv.o.radius)
        /\ length_sq(Unwrap(hv.res).normal) = One
        /\ QLt(Zero, dot_product(Unwrap(hv.res).normal,
                                 to(hv.o.center, Unwrap(hv.res).p)))

C15_Witness ==
    /\ hv.state = "done"
    /\ hv.o.kind = "sphere"
    /\ hv.o.radius = QInt(2)
    /\ hv.ray.origin = P3(0, 0, -4)
    /\ IsSome(hv.res)
    /\ Unwrap(hv.res).t = QInt(2)
    /\ Unwrap(hv.res).normal = P3(0, 0, -1)

-----------------------------------------------------------------------------
(* fn hits (raytracer.rs): the nearest hit of a ray in a scene *)

\* Hit::new
HitNew == Hit(P3(0, 0, 0), P3(0, 0, 0), P3(0, 0, 0), Inf)

\* The loop of hits from object number i on, with hit_min
RECURSIVE SceneLoop(_, _, _, _)
SceneLoop(objects, i, ray, hit_min) ==
    IF i > Len(objects) THEN hit_min
    ELSE Only({ IF IsSome(h) /\ QLt(Unwrap(h).t, hit_min.t)
                THEN SceneLoop(objects, i + 1, ray, Unwrap(h))
                ELSE SceneLoop(objects, i + 1, ray, hit_min) :
                h \in {ObjectHits(objects[i], ray, Zero, hit_min.t)} })

\* The loop run over the objects from the last added to the first
SceneHitsBackwards(ray, scene) ==
    SceneLoop([n \in 1 .. Len(scene.objects) |->
                   scene.objects[Len(scene.objects) + 1 - n]], 1, ray, HitNew)

\* The loop started at the second object
SceneHitsSkipFirst(ray, scene) == SceneLoop(scene.objects, 2, ray, HitNew)

\* fn hits(ray, scene)
SceneHits(ray, scene) == SceneLoop(scene.objects, 1, ray, HitNew)

\* struct Scene, without its sun
Scene(objects) == [objects |-> objects]

MaxObjects == 3

\* A sphere that touches TheSphere from inside at its top
InnerSphere == SphereNew(P3(5, 7, 5), QInt(1), Sand)
SceneObjects == {ThePlan, TheSphere, InnerSphere, TheTriangle, TheTetrahedron}

\* The orders in which Scene::add may have pushed the objects of S
Orders(S) ==
    {o \in [1 .. Cardinality(S) -> S] : \A m, n \in 1 .. Cardinality(S) : o[m] = o[n] => m = n}

InitScene ==
    /\ RenderIdle
    /\ fv = pureIdle
    /\ cv = pureIdle
    /\ sv = pureIdle
    /\ \E S \in SUBSET SceneObjects, r \in HitsRays :
         /\ Cardinality(S) \in 2 .. MaxObjects
         /\ \E o1 \in Orders(S), o2 \in Orders(S) :
              hv = [state |-> "input", scene |-> Scene(o1), other |-> Scene(o2), ray |-> r]

\* hits(ray, scene) for the two scenes
NearestHits ==
    /\ hv.state = "input"
    /\ \E res \in {[scene \in {hv.scene, hv.other} |-> SceneHits(hv.ray, scene)]} :
         hv' = [state |-> "done", scene |-> hv.scene, other |-> hv.other, ray |-> hv.ray,
                res |-> res[hv.scene], res_other |-> res[hv.other]]
    /\ UNCHANGED <<renderVars, cv, sv, fv>>

NextScene == NearestHits

SpecScene == InitScene /\ [][NextScene]_vars

\* C16  The order in which the objects were added to the scene does not
\* change the nearest hit of a ray: two scenes with the same objects give
\* the same t and the same colour, also when two objects are met at the same
\* t.  (Violated: of two objects met at the same t, the first added wins.)
C16_OrderIrrelevant ==
    hv.state = "done" =>
        /\ hv.res.t = hv.res_other.t
        /\ hv.res.color = hv.res_other.color

\* The hit of the object alone, if it has one with a t that compares
OwnHit(o, ray) == ObjectHits(o, ray, Zero, Inf)
HasHit(o, ray) == IsSome(OwnHit(o, ray)) /\ ~IsNaN(Unwrap(OwnHit(o, ray)).t)

\* res is the hit of the first added of the objects of the scene that the
\* ray meets nearest, or Hit::new() if it meets none
FirstAddedNearest(scene, ray, res) ==
    LET objects == scene.objects
    IN  IF \A n \in 1 .. Len(objects) : ~HasHit(objects[n], ray)
        THEN res = HitNew
        ELSE \E n \in 1 .. Len(objects) :
                /\ OwnHit(objects[n], ray) = Some(res)
                /\ \A m \in 1 .. Len(objects) :
                     HasHit(objects[m], ray) =>
                        /\ QLe(res.t, Unwrap(OwnHit(objects[m], ray)).t)
                        /\ m < n => QLt(res.t, Unwrap(OwnHit(objects[m], ray)).t)

\* C16 (amended)  Two scenes with the same objects in a different order give
\* the same t for every ray, and the hit is that of the object met nearest;
\* when several objects are met at that same t, it is the hit of the one
\* added first, so the colour depends on the order then, and only then.
C16_FirstAddedWinsTies ==
    hv.state = "done" =>
        /\ hv.res.t = hv.res_other.t
        /\ FirstAddedNearest(hv.scene, hv.ray, hv.res)
        /\ FirstAddedNearest(hv.other, hv.ray, hv.res_other)

C16_Witness ==
    /\ hv.state = "done"
    /\ hv.scene.objects = <<InnerSphere, ThePlan, TheSphere>>
    /\ hv.other.objects = <<TheSphere, InnerSphere, ThePlan>>
    /\ hv.res.t = QInt(2)
    /\ hv.res.color = InnerSphere.color
    /\ hv.res_other.color = TheSphere.color

-----------------------------------------------------------------------------
(* Further properties of render_scene and of solve_3variable_system *)

\* C17  An I/O failure is fatal: a run that goes on after opening a file
\* that exists has loaded its image, it has not started from a fresh buffer;
\* a run that ends has written its buffer to the file.  (Violated: a file
\* that cannot be read or decoded gives a fresh buffer, and the result of
\* buf.save() is dropped.)
C17_IOFailureFatal ==
    [][/\ (pc = "init" /\ disk.kind # "none" /\ pc' = "running") => buf' = disk.px
       /\ (pc = "running" /\ pc' = "done") => disk' = SavedImage(buf)]_vars

\* C18  The image saved at the end of a render that leaves no sentinel pixel
\* has 3 channels per pixel.  (Violated: buf is an RgbaImage and is saved
\* as it is.)
C18_FinalImageFlattened ==
    (pc = "done" /\ saved = "ok" /\ Sentinels(buf) = {}) => disk.fmt = "rgb8"

\* The determinant of the system x.a + y.b + z.c = p
Det(a, b, c) == dot_product(a, cross_product(b, c))

\* C19  solve_3variable_system returns no solution only for degenerate
\* systems: when a, b, c are linearly independent it returns a solution,
\* wherever the zero coefficients are.  (Violated: the second pivot is
\* looked for before the elimination and in row 3 only.)
C19_NoneOnlyIfDegenerate ==
    (sv.state = "solved" /\ Det(sv.in.a, sv.in.b, sv.in.c) # Zero) =>
        IsSome(sv.out.res)

\* C20  Render completion: from a fresh or partially rendered buffer of the
\* requested resolution, and as long as the cancellation flag is not set,
\* the parallel loop terminates under every interleaving of the workers, and
\* no pixel holds the sentinel then.
C20_RenderCompletes ==
    /\ []((pc = "done" /\ ~stop) => Sentinels(buf) = {})
    /\ (pc = "running" /\ ~stop) ~> (stop \/ (pc = "done" /\ Sentinels(buf) = {}))

\* A partially rendered image was loaded and completed without cancellation.
C20_Witness ==
    /\ pc = "done" /\ ~stop
    /\ Sentinels(loaded) # {} /\ Sentinels(loaded) # Pixels
    /\ computed = Sentinels(loaded)
    /\ Sentinels(buf) = {}

-----------------------------------------------------------------------------
(* render_scene: the pixels and the counters the workers share *)

\* The workers that hold a pixel
Busy == {w \in Workers : wk[w].pc # "idle"}

\* C21  Disjoint pixel writes: in one run every pixel is handed to one worker
\* only and written at most once: two workers never hold the same pixel, a
\* pixel that is held or was written is not handed out again, a write goes
\* to a pixel that was not written before in the run, and a written pixel
\* holds the average of all the samples of one worker.
C21_DisjointWrites ==
    /\ [](pc = "running" =>
            /\ \A w1, w2 \in Busy : w1 # w2 => wk[w1].pixel # wk[w2].pixel
            /\ \A w \in Busy : wk[w].pixel \notin todo
            /\ computed \cap todo = {}
            /\ \A w \in Busy : wk[w].pc = "sample" => wk[w].pixel \notin computed
            /\ \A p \in computed : buf[p] \in FullValues[p])
    /\ []((pc = "done" /\ ~stop) => todo = {})
    /\ [][pc = "running" =>
            \A p \in Pixels : buf'[p] # buf[p] =>
                /\ p \notin computed
                /\ Cardinality({w \in Workers : wk[w].pixel = p /\ wk[w].pc = "sample"}) = 1]_vars

\* Two workers are about to write their pixels at the same time.
C21_Witness ==
    /\ pc = "running"
    /\ \E w1, w2 \in Workers :
         /\ w1 # w2
         /\ wk[w1].pc = "sample" /\ wk[w1].n = NSamples
         /\ wk[w2].pc = "sample" /\ wk[w2].n = NSamples

\* C22  Progress counters: within a run nb_pix (completed or skipped) and
\* nb_pix_worked (freshly computed) never decrease; in every state
\* nb_pix_worked <= nb_pix <= width * height; at the end of a run that was
\* not cancelled nb_pix = width * height and nb_pix_worked is the number of
\* pixels that held the sentinel when the run started.
C22_ProgressCounters ==
    /\ [](nb_pix_worked <= nb_pix /\ nb_pix <= nb_pix_to_see /\ nb_pix_worked >= 0)
    /\ []((pc = "done" /\ ~stop) =>
            /\ nb_pix = nb_pix_to_see
            /\ nb_pix_worked = Cardinality(Sentinels(loaded)))
    /\ [][pc' # "init" => nb_pix' >= nb_pix /\ nb_pix_worked' >= nb_pix_worked]_vars

\* A run that resumed a partial image ended: some pixels skipped, some computed.
C22_Witness ==
    /\ pc = "done" /\ ~stop
    /\ nb_pix = nb_pix_to_see
    /\ nb_pix_worked > 0
    /\ nb_pix_worked < nb_pix

\* C23  Resolution validation: when the image that was opened has another
\* width or height than the screen, the run is aborted: no pixel is handed
\* out or computed, no counter moves, and the file is left as it was.
C23_ResolutionValidated ==
    /\ [](DOMAIN buf # Pixels => pc = "panic")
    /\ [](pc = "panic" =>
            /\ todo = {} /\ computed = {}
            /\ \A w \in Workers : wk[w] = IdleWk
            /\ nb_pix = 0 /\ nb_pix_worked = 0
            /\ saved = "none")
    /\ [][pc = "panic" => pc' = "panic" /\ disk' = disk]_vars

\* An image one row higher than the screen was opened.
C23_Witness ==
    /\ pc = "panic"
    /\ disk.kind = "image" /\ disk.fmt = "rgba8"
    /\ disk.width = Screen.width /\ disk.height = Screen.height + 1
    /\ buf = disk.px

-----------------------------------------------------------------------------
(* solve_3variable_system: its assertions *)

\* C24  The solver never fails: for the corners a, b, c of a triangle and
\* every p, whatever coefficients are zero and whatever rows were swapped,
\* solve_3variable_system returns Some or None and none of its assert! fires
\* (the eliminated coefficients are 0, shuffle is back to (1, 2, 3)); for a
\* singular system it returns None.
C24_SolverNeverFails ==
    sv.state = "solved" =>
        /\ ~sv.out.panic
        /\ Det(sv.in.a, sv.in.b, sv.in.c) = Zero => sv.out.res = None

\* Rows 1 and 3, then rows 2 and 3 were swapped, and a solution is returned.
C24_Witness ==
    /\ sv.state = "solved"
    /\ sv.in.a = P3(0, 0, 1) /\ sv.in.b = P3(1, 0, 0) /\ sv.in.c = P3(0, 1, 0)
    /\ ~sv.out.panic
    /\ IsSome(sv.out.res)

-----------------------------------------------------------------------------
(* fn hits (raytracer.rs): the nearest hit *)

\* hit_min.t when the loop of hits reaches object number k + 1: the loop is
\* a fold, so it is the result for the first k objects.
RunningTmax(scene, ray, k) == SceneHits(ray, Scene(SubSeq(scene.objects, 1, k))).t

\* C25  Nearest-hit selection: hits(ray, scene) returns Hit::new(), with
\* t = +infinity, exactly when no object of the scene reports a hit of the
\* ray; otherwise it returns a hit some object reports, with t > 0 and
\* t <= the t of every hit an object reports; the hit_min.t passed as tmax
\* to the objects never increases during the scan.  (A hit whose t is NaN,
\* which Plan::hits can report, counts as no hit: hit.t < hit_min.t is false.)
C25_NearestHit ==
    hv.state = "done" =>
        LET objects == hv.scene.objects
            res == hv.res
            N == Len(objects)
        IN  /\ (res = HitNew) <=> (\A n \in 1 .. N : ~HasHit(objects[n], hv.ray))
            /\ res = HitNew => res.t = Inf
            /\ res # HitNew =>
                 /\ QLt(Zero, res.t) /\ QLt(res.t, Inf)
                 /\ \E n \in 1 .. N : OwnHit(objects[n], hv.ray) = Some(res)
                 /\ \A n \in 1 .. N :
                      HasHit(objects[n], hv.ray) =>
                          QLe(res.t, Unwrap(OwnHit(objects[n], hv.ray)).t)
            /\ \A k \in 1 .. N :
                 QLe(RunningTmax(hv.scene, hv.ray, k), RunningTmax(hv.scene, hv.ray, k - 1))
            /\ RunningTmax(hv.scene, hv.ray, N) = res.t

\* The ray meets the three objects: the second is nearer than the first and
\* becomes the result, the third is not nearer than the second.
C25_Witness ==
    /\ hv.state = "done"
    /\ Len(hv.scene.objects) = 3
    /\ \A n \in 1 .. 3 : HasHit(hv.scene.objects[n], hv.ray)
    /\ QLt(RunningTmax(hv.scene, hv.ray, 2), RunningTmax(hv.scene, hv.ray, 1))
    /\ OwnHit(hv.scene.objects[2], hv.ray) = Some(hv.res)

-----------------------------------------------------------------------------
(* Plan::hits (object.rs) *)

\* The solution t of the equation of the ray and the plan
PlanT(plan, ray) ==
    QDiv(dot_product(to(ray.origin, plan.p), plan.normal),
         dot_product(ray.direction, plan.normal))

\* C26  Plan::hits returns no hit for every ray nearly parallel to the plan,
\* |direction.normal| < EPSILON, direction.normal = 0 included; for another
\* ray it returns the hit at the solution t of the equation of the ray and
\* the plan when tmin < t < tmax, from whichever side the ray comes.
\* (Violated: the test is dn >= EPSILON, without absolute value.)
C26_PlanParallelRejected ==
    (hv.state = "done" /\ hv.o.kind = "plan") =>
        LET dn == dot_product(hv.ray.direction, hv.o.normal)
            t == PlanT(hv.o, hv.ray)
        IN  /\ QLt(QAbs(dn), EPSILON) => hv.res = None
            /\ (QLe(EPSILON, QAbs(dn)) /\ QLt(hv.tmin, t) /\ QLt(t, hv.tmax)) =>
                  (IsSome(hv.res) /\ Unwrap(hv.res).t = t)

-----------------------------------------------------------------------------
(* fn color and fn lambertian (raytracer.rs): the integrator *)

\* pub static DEPTH_MAX: u8 = 8;
DEPTH_MAX == 8

\* Lines 376, 394 and 395: the switches of color
daylight == TRUE
with_lambertian == FALSE
with_shadows == FALSE

\* scale_rgb(a, b, f) of the crate color_scaling: the blend of two colours,
\* channel by channel, back to bytes
scale_rgb(a, b, f) ==
    [k \in 1 .. 3 |-> QFloor(QAdd(QInt(a[k]), QMul(QInt(b[k] - a[k]), f)))]

\* Lines 374-392: the ray hit the sky
SkyColor(ray) ==
    LET c1 == IF daylight THEN <<255, 255, 255>> ELSE <<20, 24, 42>>
        c2 == IF daylight THEN <<77, 143, 170>> ELSE <<43, 47, 82>>
        ud == normalize(ray.direction)
    IN  RgbIntoVec(scale_rgb(c2, c1, QAbs(ud.y)))

\* One call of color: the colour it returns, the number of calls of color it
\* made, itself included, and the greatest depth one of them was given.
Returned(c, calls, deepest) == [c |-> c, calls |-> calls, deepest |-> deepest]

\* fn color(ray, scene, depth), with fn lambertian (lines 349-357) in place:
\* u is what Vec3::random_in_unit_sphere() draws.  with_shadows is false, so
\* lines 405-419 do not run.
RECURSIVE color(_, _, _, _)
color(ray, scene, depth, u) ==
    Only({ IF hit_min.t = Inf
           THEN Returned(SkyColor(ray), 1, depth)
           ELSE IF with_lambertian
           THEN IF depth > DEPTH_MAX
                THEN Returned(Vec3(Zero, Zero, Zero), 1, depth)
                ELSE Only({ Returned(multv(sub.c, hit_min.color), sub.calls + 1, sub.deepest) :
                            sub \in {color(Ray(hit_min.p, addv(u, hit_min.normal)),
                                           scene, depth + 1, u)} })
           ELSE Returned(hit_min.color, 1, depth) :
           hit_min \in {SceneHits(ray, scene)} })

\* Scenes with a ground, a sphere above it, a triangle
ShadeScenes == {Scene(<<ThePlan>>), Scene(<<TheSphere, ThePlan>>), Scene(<<TheTriangle>>)}

\* Draws of random_in_unit_sphere
UnitDraws == {P3(0, 1, 0), P3(1, 0, 0)}

InitShade ==
    /\ RenderIdle
    /\ fv = pureIdle
    /\ cv = pureIdle
    /\ sv = pureIdle
    /\ \E scene \in ShadeScenes, r \in HitsRays, depth \in 0 .. DEPTH_MAX + 1,
          u \in UnitDraws :
         hv = [state |-> "input", scene |-> scene, ray |-> r, depth |-> depth, u |-> u]

\* color(ray, scene, depth)
Shade ==
    /\ hv.state = "input"
    /\ hv' = [state |-> "done", scene |-> hv.scene, ray |-> hv.ray, depth |-> hv.depth,
              u |-> hv.u, res |-> color(hv.ray, hv.scene, hv.depth, hv.u)]
    /\ UNCHANGED <<renderVars, cv, sv, fv>>

NextShade == Shade

SpecShade == InitShade /\ [][NextShade]_vars

\* C27  Integrator depth limit: color called with depth > DEPTH_MAX on a
\* ray that hits a surface returns black without calling color again; a call
\* with depth 0 never leads to a call with depth > DEPTH_MAX + 1; a ray that
\* hits nothing gets the sky colour at any depth.  (Violated: with_lambertian
\* is false, so the surface colour is returned at any depth.)
C27_DepthLimit ==
    hv.state = "done" =>
        LET hit == SceneHits(hv.ray, hv.scene).t # Inf
        IN  /\ (hit /\ hv.depth > DEPTH_MAX) =>
                  (hv.res.c = Vec3(Zero, Zero, Zero) /\ hv.res.calls = 1)
            /\ hv.depth = 0 => hv.res.deepest <= DEPTH_MAX + 1
            /\ ~hit => (hv.res.c = SkyColor(hv.ray) /\ hv.res.calls = 1)

-----------------------------------------------------------------------------
(* generate_forest_monte_carlo: the rule that decreases r *)

\* C28  Forest radius shrink rule: in the loop, r and width are multiplied
\* by decreasing_factor on a rejected attempt that leaves tries above 50,
\* and only then; a placement sets tries to 0 and leaves r and width as they
\* are; r and width never increase.
C28_ShrinkRule ==
    [][(fv.state = "loop" /\ fv'.state \in {"loop", "returned"}) =>
         LET placed == Len(fv'.vec) = Len(fv.vec) + 1
             decreased == /\ fv'.r = Decreased(fv.r, fv.shrinks)
                          /\ fv'.width = Decreased(fv.width, fv.shrinks)
             kept == fv'.r = fv.r /\ fv'.width = fv.width
         IN  /\ QLe(fv'.r, fv.r) /\ QLe(fv'.width, fv.width)
             /\ placed => (fv'.tries = 0 /\ kept)
             /\ ~placed => /\ fv'.vec = fv.vec
                           /\ fv'.tries > 0
                           /\ IF fv'.tries > MaxTries THEN decreased ELSE kept]_vars

\* r was decreased, and a tree was placed after that, with the smaller r
C28_Witness ==
    /\ fv.state = "loop"
    /\ fv.tries = 0
    /\ QLt(Zero, fv.r) /\ QLt(fv.r, Q(3, 8))
    /\ Len(fv.vec) >= 2
    /\ fv.vec[Len(fv.vec)].radix = fv.r

\* The area of the footprint taken as a trapezoid
TrapezoidArea(f) ==
    LET south == QSqrt(length_sq_to(f.sw, f.se))
        north == QSqrt(length_sq_to(f.nw, f.ne))
        h == QSqrt(length_sq_to(avg(f.sw, f.se), avg(f.nw, f.ne)))
    IN  QDiv(QMul(h, QAdd(south, north)), QInt(2))

\* C29  Footprint::get_surface returns h * (south + north) / 2, with
\* south = |sw - se|, north = |nw - ne| and h the distance between the
\* middles of the south and north sides: surface_max is threshold times that.
\* (Violated: north is computed from sw and se, so the result is h * south.)
C29_SurfaceIsTrapezoidArea ==
    fv.state \in {"loop", "returned"} =>
        fv.surface_max = QMul(TrapezoidArea(fv.footprint), fv.threshold)

-----------------------------------------------------------------------------
(* render_scene: the estimate a worker prints *)

\* C30  Progress arithmetic is safe under every interleaving: with the
\* values a worker read, its own nb_pix before its increment and the
\* nb_pix_worked it read after that, neither skipped = nb_pix - pix_worked
\* nor nb_pix_to_see - skipped goes below 0, and the percentage printed is
\* between 0 and 100.
C30_ProgressArithmeticSafe ==
    \A w \in Workers :
        wk[w].pc = "print" =>
            /\ Skipped(wk[w].nb_pix, wk[w].pix_worked) >= 0
            /\ Skipped(wk[w].nb_pix, wk[w].pix_worked) <= wk[w].nb_pix
            /\ ToSee(wk[w].nb_pix, wk[w].pix_worked) >= 0
            /\ Percent(wk[w].nb_pix) \in 0 .. 100

\* A worker read a nb_pix_worked that other workers had raised above its own
\* nb_pix.
C30_Witness ==
    \E w \in Workers :
        /\ wk[w].pc = "print"
        /\ wk[w].pix_worked > wk[w].nb_pix

====
